---- MODULE Spec2Model ----
(***************************************************************************)
(* pyAPL: geometric agreement metrics between two sets of contours.        *)
(*                                                                         *)
(* The repository is a library of synchronous functions.  The model is a   *)
(* call harness: the initial state holds the arguments of one call, each   *)
(* action is one function of the library applied to them, and `result'     *)
(* holds what the call returned or raised.                                 *)
(*                                                                         *)
(*   SpecDice     bit-packed volumes -> calculate_dice_logical,            *)
(*                calculate_dice                                           *)
(*   SpecMetrics  two structures on a CT grid -> resample_contour_slices   *)
(*                and the tolerance metrics built on it                    *)
(*   SpecResample, SpecVoxelDiff  the same on grids and contours around    *)
(*                the edges of the scan                                    *)
(*   SpecCompose  a structure set on a CT grid -> compose_struct_matrix    *)
(*   SpecPoints   a structure entry -> has_contour_points_local            *)
(*                                                                         *)
(* The two batch drivers loop over patients and structures and read the    *)
(* operator's selection on the way; SpecBatch follows them step by step.   *)
(***************************************************************************)
EXTENDS Integers, Sequences, FiniteSets, TLC

VARIABLES
    voi1, voi2,                 \* bit-packed structure volumes (cell -> integer)
    struct_num_1, struct_num_2, \* structure numbers handed to the call
    ct,                         \* the grid descriptor of the scan (voxel counts)
    struct_ref, struct_new,     \* the 'Slice' lists of the two compared structures
    tolerance,                  \* tolerances of the call (a sequence)
    rtstruct1,                  \* a structure set as read_dicomrtstruct returns it
    legacy_promotion,           \* whether numpy promotes scalars the pre-2.0 way
    rtstruct2,                  \* the second structure set of the current patient
    driver,                     \* which batch driver runs
    calc_all_parameters,        \* its switch for APL and surface DSC
    patients,                   \* the patients it finds, in the order it visits them
    patient_idx,                \* the patient the outer loop is at (1-based)
    comparison_no,              \* the entry of to_compare the inner loop is at (0-based)
    selected_oars,              \* the structure names to compare, once selected
    oars_selected,              \* whether selected_oars has been set
    all_results,                \* the records appended so far
    errors,                     \* the structures whose metrics raised
    pc,                         \* where the driver is
    op,                         \* which function was called ("none" before the call)
    result                      \* what the call returned or raised

\* the state of the structure-set functions and of the batch drivers
driver_vars == <<rtstruct2, driver, calc_all_parameters, patients, patient_idx,
                 comparison_no, selected_oars, oars_selected, all_results,
                 errors, pc>>

batch_vars == <<rtstruct1, legacy_promotion, driver_vars>>

vars == <<voi1, voi2, struct_num_1, struct_num_2, ct, struct_ref, struct_new,
          tolerance, op, result, batch_vars>>

(***************************************************************************)
(* Bounds of the model.                                                    *)
(***************************************************************************)
\* number of cells of a packed volume (the volume flattened; Dice only sums)
NumCells == 2
\* cells hold 0 .. MaxCellValue, a prefix of the unsigned range of the volume
MaxCellValue == 3
\* structure numbers handed to Dice are 1 .. MaxStructNum
MaxStructNum == 2
\* the CT grid: voxel counts per axis (ct['PixelNumXi'] ...)
PixelNumXi == 3
PixelNumYi == 3
PixelNumZi == 3
\* the CT grid: voxel spacing per axis, in tolerance units
PixelSpacingXi == 1
PixelSpacingYi == 1
PixelSpacingZi == 1
\* points per contour slice, slices per structure
MaxPoints == 2
MaxSlices == 1
\* contour slices lie in the Y planes 0 .. MaxSliceY of the lattice
MaxSliceY == 1
\* tolerances are 0 .. MaxTol; a tolerance list holds up to MaxTolLen of them
MaxTol == 1
MaxTolLen == 2
\* slices per structure of a structure set, and the size of a structure set
\* that exceeds the capacity of the packed volume
MaxComposeSlices == 2
MaxPatients == 2
MaxEntrySlices == 3
ManyStructs == 70

(***************************************************************************)
(* Floating point results.  A float64 quotient of two small integers is    *)
(* kept as the pair (num, den); den = 0 marks the IEEE results of a        *)
(* division by zero: 0.0/0 is nan, x/0 is inf (numpy warns, it does not    *)
(* raise).                                                                 *)
(***************************************************************************)
Float(n, d) == [kind |-> "float", num |-> n, den |-> d]

IsNaN(f) == f.kind = "float" /\ f.den = 0 /\ f.num = 0

IsFinite(f) == f.kind = "float" /\ f.den > 0

\* f == g as Python compares floats: nan equals nothing, itself included
FloatEq(f, g) ==
    /\ IsFinite(f)
    /\ IsFinite(g)
    /\ f.num * g.den = g.num * f.den

\* f <= g
FloatLeq(f, g) ==
    /\ IsFinite(f)
    /\ IsFinite(g)
    /\ f.num * g.den <= g.num * f.den

One == Float(1, 1)

Zero == Float(0, 1)

\* a / b for a float64 numerator a and an integer b
TrueDivide(a, b) == Float(a, b)

(***************************************************************************)
(* Bit-packed volumes and Dice.                                            *)
(***************************************************************************)
Cells == 1 .. NumCells

CellValues == 0 .. MaxCellValue

Volumes == [Cells -> CellValues]

StructNums == 1 .. MaxStructNum

\* ((voi >> shift) & 1).astype(bool), as the set of cells that are True
BitPlane_offbyone(voi, shift) ==
    {c \in DOMAIN voi : (voi[c] \div (2 ^ (shift + 1))) % 2 = 1}

BitPlane(voi, shift) ==
    {c \in DOMAIN voi : (voi[c] \div (2 ^ shift)) % 2 = 1}

\* variants of calculate_dice_logical that each differ from it in one step
calculate_dice_logical_noguard(v1, v2, n1, n2) ==
    LET voi1_struct == BitPlane(v1, n1 - 1)
        voi2_struct == BitPlane(v2, n2 - 1)
        overlap == voi1_struct \cap voi2_struct
        summed_vol == Cardinality(voi1_struct) + Cardinality(voi2_struct)
    IN  TrueDivide(2 * Cardinality(overlap), summed_vol)

calculate_dice_logical_onesided(v1, v2, n1, n2) ==
    LET voi1_struct == BitPlane(v1, n1 - 1)
        voi2_struct == BitPlane(v2, n2 - 1)
        overlap == voi1_struct \cap voi2_struct
        summed_vol == Cardinality(voi1_struct) + Cardinality(voi1_struct)
    IN  IF summed_vol = 0
        THEN One
        ELSE TrueDivide(2 * Cardinality(overlap), summed_vol)

calculate_dice_logical_nodouble(v1, v2, n1, n2) ==
    LET voi1_struct == BitPlane(v1, n1 - 1)
        voi2_struct == BitPlane(v2, n2 - 1)
        overlap == voi1_struct \cap voi2_struct
        summed_vol == Cardinality(voi1_struct) + Cardinality(voi2_struct)
    IN  IF summed_vol = 0
        THEN One
        ELSE TrueDivide(Cardinality(overlap), summed_vol)

calculate_dice_logical(v1, v2, n1, n2) ==
    LET voi1_struct == BitPlane(v1, n1 - 1)
        voi2_struct == BitPlane(v2, n2 - 1)
        overlap == voi1_struct \cap voi2_struct
        summed_vol == Cardinality(voi1_struct) + Cardinality(voi2_struct)
    IN  IF summed_vol = 0
        THEN One
        ELSE TrueDivide(2 * Cardinality(overlap), summed_vol)

\* variant of calculate_dice without the factor 2.0
calculate_dice_nodouble(v1, v2, n1, n2) ==
    LET voi1_struct == BitPlane(v1, n1 - 1)
        voi2_struct == BitPlane(v2, n2 - 1)
        pixel_data_overlap == voi1_struct \cap voi2_struct
    IN  TrueDivide(Cardinality(pixel_data_overlap),
                   Cardinality(voi1_struct) + Cardinality(voi2_struct))

calculate_dice(v1, v2, n1, n2) ==
    LET voi1_struct == BitPlane(v1, n1 - 1)
        voi2_struct == BitPlane(v2, n2 - 1)
        pixel_data_overlap == voi1_struct \cap voi2_struct
    IN  TrueDivide(2 * Cardinality(pixel_data_overlap),
                   Cardinality(voi1_struct) + Cardinality(voi2_struct))

(***************************************************************************)
(* Contours on the CT grid.                                                *)
(*                                                                         *)
(* A contour point is given by lattice coordinates <<a, b, c>>: its        *)
(* physical position is PixelFirst + (a + 1/4) * PixelSpacing on each      *)
(* axis, a quarter voxel off the voxel centres.  With this offset no       *)
(* sample of the 0.1-step upsampling falls on a rounding tie, so np.round  *)
(* gives the same index whatever the last bit of the float is.             *)
(***************************************************************************)
LatticeX == 0 .. (PixelNumXi - 1)

LatticeY == 0 .. MaxSliceY

LatticeZ == 0 .. (PixelNumZi - 1)

\* a slice {'X': [...], 'Y': [...], 'Z': [...]} with n points in one Y plane
SlicesOfLen(n) ==
    {[X |-> xs, Y |-> [i \in 1 .. n |-> y], Z |-> zs] :
        xs \in [1 .. n -> LatticeX], y \in LatticeY, zs \in [1 .. n -> LatticeZ]}

Slices == UNION {SlicesOfLen(n) : n \in 0 .. MaxPoints}

\* struct['Slice'] of one structure
Structures == UNION {[1 .. m -> Slices] : m \in 0 .. MaxSlices}

\* np.round((coord - PixelFirst) / PixelSpacing) for the sample t tenths of
\* the way from lattice coordinate a to lattice coordinate b (np.interp)
GridIndex(a, b, t) == (20 * a + 5 + 2 * t * (b - a) + 10) \div 20

\* variant without the upsampling: the contour's own points only
SliceRows_vertices(s) ==
    {<<GridIndex(s.X[k], s.X[k], 0) + 1,
       GridIndex(s.Y[k], s.Y[k], 0) + 1,
       GridIndex(s.Z[k], s.Z[k], 0) + 1>> : k \in 1 .. Len(s.X)}

\* the rows of rts_cs_grid that slice s contributes: every upsampled point,
\* converted to 1-based grid subscripts
SliceRows(s) ==
    LET n == Len(s.X)
        Row(k, k2, t) ==
            <<GridIndex(s.X[k], s.X[k2], t) + 1,
              GridIndex(s.Y[k], s.Y[k2], t) + 1,
              GridIndex(s.Z[k], s.Z[k2], t) + 1>>
    IN  IF n = 0
        THEN {}
        ELSE {Row(k, k + 1, t) : k \in 1 .. (n - 1), t \in 0 .. 9}
                 \cup {Row(n, n, 0)}

outside_grid_limit == 5

SetMin(S) == CHOOSE m \in S : \A n \in S : m <= n

SetMax(S) == CHOOSE m \in S : \A n \in S : m >= n

Min2(a, b) == IF a <= b THEN a ELSE b

Max2(a, b) == IF a >= b THEN a ELSE b

\* the grid descriptor: ct['PixelNumXi'], ct['PixelNumYi'], ct['PixelNumZi']
GridOf(nx, ny, nz) == [PixelNumXi |-> nx, PixelNumYi |-> ny, PixelNumZi |-> nz]

\* the scan the tolerance metrics are called with
FullGrid == GridOf(PixelNumXi, PixelNumYi, PixelNumZi)

\* all voxels of an array of the given shape, 0-based <<x, y, z>>
VoxelsOfShape(shape) ==
    (0 .. (shape[1] - 1)) \X (0 .. (shape[2] - 1)) \X (0 .. (shape[3] - 1))

\* vol_shape = (ct['PixelNumXi'], ct['PixelNumYi'], ct['PixelNumZi'])
ShapeOf(grid) == <<grid.PixelNumXi, grid.PixelNumYi, grid.PixelNumZi>>

\* np.zeros(vol_shape): a float64 array, kept as its shape and the set of
\* its non-zero voxels
EmptyVolume(grid) == [dtype |-> "float64", shape |-> ShapeOf(grid), vox |-> {}]

\* rts_cs_aux converted to rts_cs_grid: the upsampled points of every slice
\* that has points, as 1-based grid subscripts
ContourRows(rts_cs) == UNION {SliceRows(rts_cs[i]) : i \in DOMAIN rts_cs}

\* variant that keeps every row
ValidRows_nofilter(rts_cs_grid, grid) == rts_cs_grid

\* rts_cs_grid[~non_valid, :]
ValidRows(rts_cs_grid, grid) ==
    {r \in rts_cs_grid :
        ~ \/ r[1] < -outside_grid_limit
          \/ r[2] < -outside_grid_limit
          \/ r[3] < -outside_grid_limit
          \/ r[1] > grid.PixelNumXi + outside_grid_limit
          \/ r[2] > grid.PixelNumYi + outside_grid_limit
          \/ r[3] > grid.PixelNumZi + outside_grid_limit}

\* the test that guards the clamping and the outside-grid diagnostic
OutsideGrid(rts_cs_grid, grid) ==
    \/ \E r \in rts_cs_grid : r[1] < 1 \/ r[2] < 1 \/ r[3] < 1
    \/ \E r \in rts_cs_grid : r[1] > grid.PixelNumXi - 1
    \/ \E r \in rts_cs_grid : r[2] > grid.PixelNumYi - 1
    \/ \E r \in rts_cs_grid : r[3] > grid.PixelNumZi - 1

\* variant that clamps from below only
ClampIndex_noupper(v, n) == Max2(v, 1)

\* subscripts below 1 become 1, then those above PixelNum - 1 become
\* PixelNum - 1
ClampIndex(v, n) == IF Max2(v, 1) > n - 1 THEN n - 1 ELSE Max2(v, 1)

ClampRows(rts_cs_grid, grid) ==
    IF OutsideGrid(rts_cs_grid, grid)
    THEN {<<ClampIndex(r[1], grid.PixelNumXi), ClampIndex(r[2], grid.PixelNumYi),
            ClampIndex(r[3], grid.PixelNumZi)>> : r \in rts_cs_grid}
    ELSE rts_cs_grid

\* rts_vol.flat[np.ravel_multi_index(rts_cs_grid - 1, vol_shape)] = 1;
\* ravel_multi_index raises ValueError when a subscript is off the grid,
\* the except clause then leaves the volume all zero
MarkVoxels(rts_cs_grid, grid) ==
    IF {<<r[1] - 1, r[2] - 1, r[3] - 1>> : r \in rts_cs_grid}
           \subseteq VoxelsOfShape(ShapeOf(grid))
    THEN {<<r[1] - 1, r[2] - 1, r[3] - 1>> : r \in rts_cs_grid}
    ELSE {}

\* variant with a 0-based degenerate box
EmptyResample_zerobox(grid) ==
    [vol |-> EmptyVolume(grid),
     minmax |-> [minX |-> 0, maxX |-> 0, minZ |-> 0, maxZ |-> 0],
     warned |-> FALSE]

\* the return value for no valid point
EmptyResample(grid) ==
    [vol |-> EmptyVolume(grid),
     minmax |-> [minX |-> 1, maxX |-> 1, minZ |-> 1, maxZ |-> 1],
     warned |-> FALSE]

\* minmax and the volume, from the clamped subscripts
Rasterize(rts_cs_grid, outside, grid) ==
    [vol |-> [dtype |-> "float64", shape |-> ShapeOf(grid),
              vox |-> MarkVoxels(rts_cs_grid, grid)],
     minmax |-> [minX |-> SetMin({r[1] : r \in rts_cs_grid}),
                 maxX |-> SetMax({r[1] : r \in rts_cs_grid}),
                 minZ |-> SetMin({r[3] : r \in rts_cs_grid}),
                 maxZ |-> SetMax({r[3] : r \in rts_cs_grid})],
     warned |-> outside]

ResampleValid(rts_cs_grid, grid) ==
    IF rts_cs_grid = {}
    THEN EmptyResample(grid)
    ELSE Rasterize(ClampRows(rts_cs_grid, grid),
                   OutsideGrid(rts_cs_grid, grid), grid)

ResampleRows(rts_cs_aux, grid) ==
    IF rts_cs_aux = {}
    THEN EmptyResample(grid)
    ELSE ResampleValid(ValidRows(rts_cs_aux, grid), grid)

\* resample_contour_slices(rts_cs, ct, st_name): the volume, minmax, and
\* whether the outside-grid diagnostic was printed
resample_contour_slices(rts_cs, grid) ==
    ResampleRows(ContourRows(rts_cs), grid)

(***************************************************************************)
(* Cropping and the distance field.                                        *)
(***************************************************************************)
\* contour[min_x:max_x, :, min_z:max_z] for bounds b >= 0; voxels keep their
\* subscripts in the full volume, x0 and z0 remember where the crop starts
Crop(vol, b) ==
    [dtype |-> vol.dtype,
     x0 |-> b.min_x,
     z0 |-> b.min_z,
     ny |-> vol.shape[2],
     dom |-> {v \in VoxelsOfShape(vol.shape) :
                 /\ b.min_x <= v[1] /\ v[1] < b.max_x
                 /\ b.min_z <= v[3] /\ v[3] < b.max_z},
     vox |-> {v \in vol.vox :
                 /\ b.min_x <= v[1] /\ v[1] < b.max_x
                 /\ b.min_z <= v[3] /\ v[3] < b.max_z}]

\* array.astype(bool)
AsBool(a) == [a EXCEPT !.dtype = "bool"]

\* numpy's invert (~) is defined for boolean and integer arrays only and
\* raises TypeError for a float array, whatever its size
InvertRaises(a) == a.dtype = "float64"

\* squared physical distance between two voxels (sampling = spacing)
SqDist(u, v) ==
      (PixelSpacingXi * (u[1] - v[1])) * (PixelSpacingXi * (u[1] - v[1]))
    + (PixelSpacingYi * (u[2] - v[2])) * (PixelSpacingYi * (u[2] - v[2]))
    + (PixelSpacingZi * (u[3] - v[3])) * (PixelSpacingZi * (u[3] - v[3]))

\* distance_transform_edt(~mask_zyx, sampling=spacing) <= tol, as the set of
\* voxels of the crop it holds for.  When the mask has no set voxel the
\* feature transform finds no background element and leaves every entry at
\* subscript -1 on the array's first axis (Z after the transpose) and 0 on
\* the others, so the distance is measured to that point of the crop.
WithinTolerance(mask, tol) ==
    IF mask.vox = {}
    THEN {v \in mask.dom :
             SqDist(<<v[1] - mask.x0, v[2], v[3] - mask.z0>>, <<0, 0, -1>>)
                 <= tol * tol}
    ELSE {v \in mask.dom : \E u \in mask.vox : SqDist(u, v) <= tol * tol}

TypeError == [kind |-> "TypeError"]

(***************************************************************************)
(* The tolerance metrics.  tol is the list of tolerances the function      *)
(* iterates over; a bare number is wrapped into a one-element list first.  *)
(* Each function resamples both contours (r1, r2), crops both volumes to   *)
(* the bounds b and works on the crops.                                    *)
(***************************************************************************)
range_margin_v2 == 0

margin_path_length == 15

range_margin_sdsc == 20

range_margin_voxel_diff == 20

\* the crop bounds every metric computes from the two minmax records
CropBounds(mm_oc, mm_nc, margin, grid) ==
    [min_x |-> Max2(0, Min2(mm_oc.minX, mm_nc.minX) - margin),
     max_x |-> Min2(grid.PixelNumXi, Max2(mm_oc.maxX, mm_nc.maxX) + margin),
     min_z |-> Max2(0, Min2(mm_oc.minZ, mm_nc.minZ) - margin),
     max_z |-> Min2(grid.PixelNumZi, Max2(mm_oc.maxZ, mm_nc.maxZ) + margin)]

\* range(ct['PixelNumYi'])
YSlices(grid) == 0 .. (grid.PixelNumYi - 1)

\* np.sum(diff == -1), as the set it counts: voxels of the
\* comparison mask outside the tolerance-expanded reference mask
OutsideVoxels(contour1_tol, c2) == {v \in c2.vox : v \notin contour1_tol}

\* per Y-slice and per tolerance, the number of voxels that the path length
\* multiplies by its length factor
PathLengthCounts(c1, c2, tol) ==
    [ii \in 0 .. (c2.ny - 1) |->
        [t \in DOMAIN tol |->
            Cardinality({v \in OutsideVoxels(WithinTolerance(c1, tol[t]), c2) :
                            v[2] = ii})]]

\* np.sum(contour_crop[:, ii, :])
SliceSum(contour_crop, ii) == Cardinality({v \in contour_crop.vox : v[2] = ii})

\* what the loop over the Y-slices prints about a slice that one of the two
\* contours is missing from, per slice
MissingContourMessages(contour1_crop, contour2_crop) ==
    [ii \in 0 .. (contour2_crop.ny - 1) |->
        (IF SliceSum(contour1_crop, ii) = 0 /\ SliceSum(contour2_crop, ii) # 0
         THEN {"contains a GT contour but no automatic contour"}
         ELSE {})
        \cup
        (IF SliceSum(contour1_crop, ii) # 0 /\ SliceSum(contour2_crop, ii) = 0
         THEN {"contains no GT contour but does contain an automatic contour"}
         ELSE {})]

PathLengthV2OfCrops(contour1_crop, contour2_crop, tol) ==
    [kind |-> "path_length",
     factor |-> "average of diagonal and straight",
     count |-> PathLengthCounts(AsBool(contour1_crop), contour2_crop, tol),
     printed |-> MissingContourMessages(contour1_crop, contour2_crop)]

PathLengthV2OfMasks(r1, r2, b, tol) ==
    PathLengthV2OfCrops(Crop(r1.vol, b), Crop(r2.vol, b), tol)

PathLengthV2Resampled(r1, r2, grid, tol) ==
    PathLengthV2OfMasks(r1, r2,
                        CropBounds(r1.minmax, r2.minmax, range_margin_v2, grid), tol)

calculate_different_path_length_v2(grid, s_ref, s_new, tol) ==
    PathLengthV2Resampled(resample_contour_slices(s_ref, grid),
        resample_contour_slices(s_new, grid), grid, tol)

PathLengthOfCrops(contour1_crop, contour2_crop, tol) ==
    IF InvertRaises(contour1_crop)
    THEN TypeError
    ELSE [kind |-> "path_length",
          factor |-> "spacing",
          count |-> PathLengthCounts(contour1_crop, contour2_crop, <<tol[1]>>),
          printed |-> MissingContourMessages(contour1_crop, contour2_crop)]

PathLengthOfMasks(r1, r2, b, tol) ==
    PathLengthOfCrops(Crop(r1.vol, b), Crop(r2.vol, b), tol)

PathLengthResampled(r1, r2, grid, tol) ==
    PathLengthOfMasks(r1, r2,
                      CropBounds(r1.minmax, r2.minmax, margin_path_length, grid), tol)

calculate_path_length(grid, s_ref, s_new, tol) ==
    PathLengthResampled(resample_contour_slices(s_ref, grid),
        resample_contour_slices(s_new, grid), grid, tol)

\* the loop over the tolerances: c1 and c2 count the uncropped masks
SurfaceDscValues(contour1_crop, contour2_crop, c1, c2, tol) ==
    [t \in DOMAIN tol |->
        IF c1 + c2 > 0
        THEN TrueDivide(2 * Cardinality(contour2_crop.vox
                               \cap WithinTolerance(contour1_crop, tol[t])),
                        c1 + c2)
        ELSE Zero]

\* a scalar for a single tolerance, otherwise the array
ScalarOrArray(surface_dsc) ==
    IF Len(surface_dsc) = 1
    THEN surface_dsc[1]
    ELSE [kind |-> "array", vals |-> surface_dsc]

SurfaceDscOfCrops(contour1_crop, contour2_crop, c1, c2, tol) ==
    IF InvertRaises(contour1_crop)
    THEN TypeError
    ELSE ScalarOrArray(SurfaceDscValues(contour1_crop, contour2_crop, c1, c2, tol))

SurfaceDscOfMasks(r1, r2, b, tol) ==
    SurfaceDscOfCrops(Crop(r1.vol, b), Crop(r2.vol, b),
                      Cardinality(r1.vol.vox), Cardinality(r2.vol.vox), tol)

SurfaceDscResampled(r1, r2, grid, tol) ==
    SurfaceDscOfMasks(r1, r2,
                      CropBounds(r1.minmax, r2.minmax, range_margin_sdsc, grid), tol)

calculate_surface_dsc(grid, s_ref, s_new, tol) ==
    SurfaceDscResampled(resample_contour_slices(s_ref, grid),
        resample_contour_slices(s_new, grid), grid, tol)

VoxelDiffOfCrops(bw_ref_crop, bw_new_crop, tol) ==
    IF InvertRaises(bw_ref_crop)
    THEN TypeError
    ELSE [kind |-> "array",
          vals |-> [t \in DOMAIN tol |->
                      Cardinality(OutsideVoxels(
                          WithinTolerance(bw_ref_crop, tol[t]), bw_new_crop))]]

\* variant without the empty-crop return
VoxelDiffOfMasks_noguard(r1, r2, b, tol) ==
    VoxelDiffOfCrops(Crop(r1.vol, b), Crop(r2.vol, b), tol)

VoxelDiffOfMasks(r1, r2, b, tol) ==
    IF b.min_x >= b.max_x \/ b.min_z >= b.max_z
    THEN [kind |-> "array", vals |-> [t \in DOMAIN tol |-> 0]]
    ELSE VoxelDiffOfCrops(Crop(r1.vol, b), Crop(r2.vol, b), tol)

VoxelDiffResampled(r1, r2, grid, tol) ==
    VoxelDiffOfMasks(r1, r2,
                     CropBounds(r1.minmax, r2.minmax, range_margin_voxel_diff, grid), tol)

calculate_voxel_diff_counts(grid, s_ref, s_new, tol) ==
    VoxelDiffResampled(resample_contour_slices(s_ref, grid),
        resample_contour_slices(s_new, grid), grid, tol)

(***************************************************************************)
(* compose_struct_matrix: the bit-packed volume of a structure set.        *)
(*                                                                         *)
(* A slice of a structure set is the record [X, Y, Z, dY]: X and Z are     *)
(* lattice coordinates as above; the slice lies dY hundredths of the       *)
(* length unit above the scan plane Y[1], so that slice_data['Y'][0] is    *)
(* PixelFirstYi + Y[1] * PixelSpacingYi + dY / 100.  Y positions are kept  *)
(* in hundredths, relative to PixelFirstYi.  The volume is kept as the set *)
(* of pairs <<voxel, i>> for which bit i of the voxel is set, so that 64   *)
(* bits fit; the voxel is <<axis 0, axis 1, axis 2>> of the array.         *)
(***************************************************************************)
uint16_structs == 16

uint32_structs == 32

max_structs == 64

\* y-position discrepancy that is still accepted, in hundredths (0.11)
y_discrepancy_allowed == 11

\* yct = PixelFirstYi + np.arange(PixelNumYi) * PixelSpacingYi
Yct(scan) == {100 * PixelSpacingYi * k : k \in 0 .. (scan.PixelNumYi - 1)}

\* slice_data['Y'][0]
SliceY(slice_data) == 100 * PixelSpacingYi * slice_data.Y[1] + slice_data.dY

Abs(x) == IF x < 0 THEN -x ELSE x

\* y_diff = np.abs(yct - slice_data['Y'][0])
YDiff(scan, slice_data) == {Abs(y - SliceY(slice_data)) : y \in Yct(scan)}

\* slice_data['Y'] is not None and len(slice_data['Y']) > 0
HasY(slice_data) == Len(slice_data.Y) > 0

\* np.any(y_diff < 0.0001): positions are whole hundredths
MatchesSlice(scan, slice_data) == \E d \in YDiff(scan, slice_data) : d = 0

OutsideYRange(scan, slice_data) ==
    \/ SliceY(slice_data) < SetMin(Yct(scan))
    \/ SliceY(slice_data) > SetMax(Yct(scan))

NearSlice(scan, slice_data) ==
    \E d \in YDiff(scan, slice_data) : d <= y_discrepancy_allowed

\* the branch the slice takes in the if / elif chain on its Y position
SliceBranch(scan, slice_data) ==
    IF ~ HasY(slice_data) THEN "no points"
    ELSE IF MatchesSlice(scan, slice_data) THEN "match"
    ELSE IF OutsideYRange(scan, slice_data) THEN "warning1"
    ELSE IF NearSlice(scan, slice_data) THEN "warning2"
    ELSE "discrepancy"

do_process(scan, slice_data) ==
    SliceBranch(scan, slice_data) \in {"match", "warning2"}

\* y_idx = int(np.round(y_samp)), y_samp = (Y[0] - PixelFirstYi) / PixelSpacingYi
YIdx(slice_data) ==
    (2 * SliceY(slice_data) + 100 * PixelSpacingYi) \div (200 * PixelSpacingYi)

SeqMin(q) == SetMin({q[k] : k \in DOMAIN q})

SeqMax(q) == SetMax({q[k] : k \in DOMAIN q})

\* skimage.draw.polygon(r, c, shape) for the closed axis-aligned rectangles
\* of the model: the pixels whose centre lies inside the polygon, clipped to
\* shape.  The vertices are a quarter pixel off the centres, so no centre
\* lies on an edge.
polygon(r, c, shape) ==
    {px \in (0 .. (shape[1] - 1)) \X (0 .. (shape[2] - 1)) :
        /\ SeqMin(r) < px[1] /\ px[1] <= SeqMax(r)
        /\ SeqMin(c) < px[2] /\ px[2] <= SeqMax(c)}

\* the voxels matrix[r, y_idx, c] that one processed slice sets
SliceVoxels(scan, slice_data) ==
    IF 0 <= YIdx(slice_data) /\ YIdx(slice_data) < scan.PixelNumYi
    THEN {<<px[1], YIdx(slice_data), px[2]>> :
             px \in {q \in polygon(slice_data.Z, slice_data.X,
                                   <<scan.PixelNumXi, scan.PixelNumZi>>) :
                        /\ 0 <= q[1] /\ q[1] < scan.PixelNumXi
                        /\ 0 <= q[2] /\ q[2] < scan.PixelNumZi}}
    ELSE {}

\* the slice at which the loop over the slices breaks (Len + 1: it does not)
BreakIndex(scan, slices) ==
    SetMin({j \in DOMAIN slices : SliceBranch(scan, slices[j]) = "discrepancy"}
               \cup {Len(slices) + 1})

\* the slices whose body the loop executes to its end
SlicesReached(scan, slices) ==
    {j \in DOMAIN slices : j < BreakIndex(scan, slices)}

\* the voxels one structure sets: structures with at most one slice are
\* not processed at all
StructVoxels(scan, struct) ==
    IF Len(struct.Slice) > 1
    THEN UNION {SliceVoxels(scan, struct.Slice[j]) :
                   j \in {k \in SlicesReached(scan, struct.Slice) :
                             do_process(scan, struct.Slice[k])}}
    ELSE {}

\* the diagnostics printed while one structure is processed
StructDiagnostics(scan, struct) ==
    IF Len(struct.Slice) > 1
    THEN {"discrepancy" : j \in {k \in DOMAIN struct.Slice :
                                    k = BreakIndex(scan, struct.Slice)}}
         \cup {SliceBranch(scan, struct.Slice[j]) :
                  j \in {k \in SlicesReached(scan, struct.Slice) :
                            SliceBranch(scan, struct.Slice[k])
                                \in {"warning1", "warning2"}}}
    ELSE {}

MatrixDtype(struct_num) ==
    IF struct_num <= uint16_structs THEN "uint16"
    ELSE IF struct_num <= uint32_structs THEN "uint32"
    ELSE "uint64"

\* variant without the cap
StructCount_nocap(struct_num) == struct_num

\* the number of structures the loop processes
StructCount(struct_num) ==
    IF struct_num > max_structs THEN max_structs ELSE struct_num

\* variant that assigns the bit instead of or-ing it in
SetBit_assign(matrix, voxels, i) ==
    {b \in matrix : b[1] \notin voxels} \cup {<<v, i>> : v \in voxels}

\* matrix[r, y_idx, c] |= (1 << i) for every voxel of the structure
SetBit(matrix, voxels, i) == matrix \cup {<<v, i>> : v \in voxels}

\* matrix[r, y_idx, c] | (1 << i) raises TypeError under numpy's pre-2.0
\* promotion when the element is a uint64 and 1 << i fits an int64: the
\* operands promote to float64, for which there is no bitwise or.  The bare
\* except around the slice swallows it and the slice sets nothing.
OrRaises(dtype, i, legacy) ==
    legacy /\ dtype = "uint64" /\ i < max_structs - 1

\* one iteration of for i in range(struct_num)
ComposeStep(scan, struct_in, i, matrix, legacy) ==
    IF OrRaises(MatrixDtype(struct_in.StructNum), i, legacy)
    THEN matrix
    ELSE SetBit(matrix, StructVoxels(scan, struct_in.Struct[i + 1]), i)

\* the iterations lo .. hi - 1 of for i in range(struct_num), in order, from
\* matrix on; the range is halved so that the first half is evaluated before
\* the second half starts
RECURSIVE ComposeLoop(_, _, _, _, _, _)
ComposeLoop(scan, struct_in, lo, hi, matrix, legacy) ==
    IF hi <= lo
    THEN matrix
    ELSE IF hi = lo + 1
         THEN ComposeStep(scan, struct_in, lo, matrix, legacy)
         ELSE UNION {ComposeLoop(scan, struct_in, (lo + hi) \div 2, hi, m, legacy) :
                        m \in {ComposeLoop(scan, struct_in, lo, (lo + hi) \div 2,
                                            matrix, legacy)}}

ComposeDiagnostics(scan, struct_in) ==
    {"too many structs" : k \in {n \in {struct_in.StructNum} : n > max_structs}}
        \cup UNION {StructDiagnostics(scan, struct_in.Struct[i + 1]) :
                       i \in 0 .. (StructCount(struct_in.StructNum) - 1)}

compose_struct_matrix(scan, struct_in, legacy) ==
    [kind |-> "matrix",
     dtype |-> MatrixDtype(struct_in.StructNum),
     shape |-> ShapeOf(scan),
     bits |-> ComposeLoop(scan, struct_in, 0, StructCount(struct_in.StructNum), {},
                         legacy),
     diag |-> ComposeDiagnostics(scan, struct_in)]

(***************************************************************************)
(* The batch drivers quantify_contour_differences and                      *)
(* quantify_contour_differences_p0728.  Structure names are small          *)
(* integers, a patient number is the patient's position in the list the    *)
(* driver visits, and a record is the dict the driver appends.             *)
(***************************************************************************)
\* apl_tolerance = 0.1 and sdsc_tolerance = 0.1 lie below the voxel spacing:
\* between voxels of the lattice a distance is <= 0.1 exactly when it is 0
apl_tolerance == 0

sdsc_tolerance == 0

\* vois1 = [s['Name'] for s in rtstruct1['Struct']]
Vois(rtstruct) == [k \in DOMAIN rtstruct.Struct |-> rtstruct.Struct[k].Name]

\* v in list
InList(v, list) == \E k \in DOMAIN list : list[k] = v

\* common_vois = [v for v in vois1 if v in vois2]
CommonVois(vois1, vois2) ==
    LET Keep(v) == InList(v, vois2)
    IN  SelectSeq(vois1, Keep)

\* selected_oars after the prompt: the empty answer selects every common
\* structure, otherwise [common_vois[i] for i in indices if i < len(common_vois)]
SelectOars(common_vois, indices) ==
    IF indices = <<>>
    THEN common_vois
    ELSE LET Valid(i) == i < Len(common_vois)
             kept == SelectSeq(indices, Valid)
         IN  [k \in DOMAIN kept |-> common_vois[kept[k] + 1]]

\* to_compare = [i for i, v in enumerate(vois1)
\*               if v in selected_oars and v in vois2]
ToCompare(vois1, vois2, selected) ==
    LET Keep(i) == InList(vois1[i + 1], selected) /\ InList(vois1[i + 1], vois2)
    IN  SelectSeq([k \in DOMAIN vois1 |-> k - 1], Keep)

\* list.index(v), 0-based
IndexOf(list, v) == SetMin({k - 1 : k \in {j \in DOMAIN list : list[j] = v}})

\* a slice is a dict: a record whose fields are the dict's keys (the empty
\* dict is <<>>); the field none, where there is one, lists the keys whose
\* value is None.  s.get(key) is not None and len(s.get(key, [])) > 0
SliceHas(s, key) ==
    /\ DOMAIN s # {}
    /\ key \in DOMAIN s
    /\ ~ ("none" \in DOMAIN s /\ key \in s.none)
    /\ Len(s[key]) > 0

\* has_contour_points_local: slices with a flat ContourData vector are looked
\* at first, then slices with X/Y/Z vectors
has_contour_points_local(struct_entry) ==
    IF "Slice" \notin DOMAIN struct_entry
    THEN FALSE
    ELSE IF Len(struct_entry.Slice) = 0
    THEN FALSE
    ELSE IF \E k \in DOMAIN struct_entry.Slice :
               /\ DOMAIN struct_entry.Slice[k] # {}
               /\ "ContourData" \in DOMAIN struct_entry.Slice[k]
    THEN \E k \in DOMAIN struct_entry.Slice :
            SliceHas(struct_entry.Slice[k], "ContourData")
    ELSE IF \A k \in DOMAIN struct_entry.Slice :
               DOMAIN struct_entry.Slice[k] # {}
                  => {"X", "Y", "Z"} \subseteq DOMAIN struct_entry.Slice[k]
    THEN \E k \in DOMAIN struct_entry.Slice :
            /\ SliceHas(struct_entry.Slice[k], "X")
            /\ SliceHas(struct_entry.Slice[k], "Y")
            /\ SliceHas(struct_entry.Slice[k], "Z")
    ELSE FALSE

\* the integer a voxel of the composed matrix holds in its lowest n bits
RECURSIVE PackBits(_, _, _)
PackBits(bits, v, n) ==
    IF n = 0
    THEN 0
    ELSE PackBits(bits, v, n - 1)
             + (IF <<v, n - 1>> \in bits THEN 2 ^ (n - 1) ELSE 0)

\* the array compose_struct_matrix returns, as calculate_dice_logical reads
\* it (the structure sets of the drivers' patients have few structures)
PackedVolume(matrix, struct_num) ==
    [v \in VoxelsOfShape(matrix.shape) |->
        PackBits(matrix.bits, v, StructCount(struct_num))]

RECURSIVE SumCounts(_, _)
SumCounts(count, n) ==
    IF n = 0 THEN 0 ELSE SumCounts(count, n - 1) + count[n - 1][1]

\* np.sum(temp_path_length): the voxel count times the length factor
SumPathLength(temp_path_length) ==
    [factor |-> temp_path_length.factor,
     count |-> SumCounts(temp_path_length.count,
                         Cardinality(DOMAIN temp_path_length.count))]

\* the rest of the metrics when calc_all_parameters != 0: result is the
\* dict so far; an exception leaves it as it is
AllParameters(result_dict, temp_path_length, sdsc) ==
    IF sdsc.kind = "TypeError"
    THEN [raised |-> TRUE,
          record |-> [pNumber |-> result_dict.pNumber,
                      VOIName |-> result_dict.VOIName,
                      Dice |-> result_dict.Dice,
                      APL |-> SumPathLength(temp_path_length)]]
    ELSE [raised |-> FALSE,
          record |-> [pNumber |-> result_dict.pNumber,
                      VOIName |-> result_dict.VOIName,
                      Dice |-> result_dict.Dice,
                      APL |-> SumPathLength(temp_path_length),
                      SDSC |-> sdsc]]

\* the metrics of one structure: the dict result and whether an exception
\* left the block before all_results.append(result)
StructureMetrics(calc, scan, rt1, rt2, v1, v2, m1, m2, p_number) ==
    IF calc = 0
    THEN [raised |-> FALSE,
          record |-> [pNumber |-> p_number,
                      VOIName |-> rt1.Struct[m1 + 1].Name,
                      Dice |-> calculate_dice_logical(v1, v2, m1 + 1, m2 + 1)]]
    ELSE AllParameters(
             [pNumber |-> p_number,
              VOIName |-> rt1.Struct[m1 + 1].Name,
              Dice |-> calculate_dice_logical(v1, v2, m1 + 1, m2 + 1)],
             calculate_different_path_length_v2(scan, rt1.Struct[m1 + 1].Slice,
                 rt2.Struct[m2 + 1].Slice, <<apl_tolerance>>),
             calculate_surface_dsc(scan, rt1.Struct[m1 + 1].Slice,
                 rt2.Struct[m2 + 1].Slice, <<sdsc_tolerance>>))

\* variant that appends the dict before the metrics are computed
AppendResult_early(results, outcome) == Append(results, outcome.record)

\* all_results.append(result) is the last statement of the block: an
\* exception before it leaves all_results as it was
AppendResult(results, outcome) ==
    IF outcome.raised THEN results ELSE Append(results, outcome.record)

\* the order of sort_values('VOIName') and of
\* sort_values(['pNumber', 'VOIName'])
SortKeyLeq(drv, a, b) ==
    IF drv = "quantify_contour_differences"
    THEN a.VOIName <= b.VOIName
    ELSE \/ a.pNumber < b.pNumber
         \/ a.pNumber = b.pNumber /\ a.VOIName <= b.VOIName

\* row put behind the rows of a sorted table that do not come after it
InsertRow(row, sorted, drv) ==
    LET n == Cardinality({k \in DOMAIN sorted : SortKeyLeq(drv, sorted[k], row)})
    IN  SubSeq(sorted, 1, n) \o <<row>> \o SubSeq(sorted, n + 1, Len(sorted))

\* sort_values: rows with equal keys keep the order of all_results (the
\* tables are short, and short arrays are sorted by insertion)
RECURSIVE SortValues(_, _)
SortValues(rows, drv) ==
    IF rows = <<>>
    THEN <<>>
    ELSE InsertRow(rows[Len(rows)],
                   SortValues(SubSeq(rows, 1, Len(rows) - 1), drv), drv)

\* the returned table: pd.DataFrame(all_results), sorted, or an empty frame
ResultsTable(results, drv) ==
    [kind |-> "DataFrame", rows |-> SortValues(results, drv)]

(***************************************************************************)
(* The Dice harness.                                                       *)
(***************************************************************************)
NoStruct == <<>>

NoRtstruct == [StructNum |-> 0, Struct |-> <<>>]

\* no structure set is involved in the call
NoDriver ==
    /\ rtstruct2 = NoRtstruct
    /\ driver = "none"
    /\ calc_all_parameters = 0
    /\ patients = <<>>
    /\ patient_idx = 1
    /\ comparison_no = 0
    /\ selected_oars = <<>>
    /\ oars_selected = FALSE
    /\ all_results = <<>>
    /\ errors = <<>>
    /\ pc = "none"

NoBatch == rtstruct1 = NoRtstruct /\ legacy_promotion = FALSE /\ NoDriver

NoResult == [kind |-> "none"]

NoTolerance == <<>>

InitDice ==
    /\ voi1 \in Volumes
    /\ voi2 \in Volumes
    /\ struct_num_1 \in StructNums
    /\ struct_num_2 \in StructNums
    /\ ct = FullGrid
    /\ struct_ref = NoStruct
    /\ struct_new = NoStruct
    /\ tolerance = NoTolerance
    /\ op = "none"
    /\ result = NoResult
    /\ NoBatch

CallDiceLogical ==
    /\ op = "none"
    /\ op' = "calculate_dice_logical"
    /\ result' = calculate_dice_logical(voi1, voi2, struct_num_1, struct_num_2)
    /\ UNCHANGED <<voi1, voi2, struct_num_1, struct_num_2, ct, struct_ref,
                   struct_new, tolerance, batch_vars>>

CallDice ==
    /\ op = "none"
    /\ op' = "calculate_dice"
    /\ result' = calculate_dice(voi1, voi2, struct_num_1, struct_num_2)
    /\ UNCHANGED <<voi1, voi2, struct_num_1, struct_num_2, ct, struct_ref,
                   struct_new, tolerance, batch_vars>>

NextDice ==
    \/ CallDiceLogical
    \/ CallDice

SpecDice == InitDice /\ [][NextDice]_vars

(***************************************************************************)
(* The metrics harness.                                                    *)
(***************************************************************************)
Tolerances == 0 .. MaxTol

ToleranceLists == UNION {[1 .. n -> Tolerances] : n \in 1 .. MaxTolLen}

\* calculate_path_length takes a single tolerance
SingleTolerances == {l \in ToleranceLists : Len(l) = 1}

NoVolume == [c \in Cells |-> 0]

InitMetrics ==
    /\ voi1 = NoVolume
    /\ voi2 = NoVolume
    /\ struct_num_1 = 1
    /\ struct_num_2 = 1
    /\ ct = FullGrid
    /\ struct_ref \in Structures
    /\ struct_new \in Structures
    /\ tolerance = NoTolerance
    /\ op = "none"
    /\ result = NoResult
    /\ NoBatch

CallDifferentPathLengthV2 ==
    /\ op = "none"
    /\ \E tol \in ToleranceLists :
          /\ tolerance' = tol
          /\ result' = calculate_different_path_length_v2(ct, struct_ref, struct_new, tol)
    /\ op' = "calculate_different_path_length_v2"
    /\ UNCHANGED <<voi1, voi2, struct_num_1, struct_num_2, ct, struct_ref, struct_new,
                   batch_vars>>

CallPathLength ==
    /\ op = "none"
    /\ \E tol \in SingleTolerances :
          /\ tolerance' = tol
          /\ result' = calculate_path_length(ct, struct_ref, struct_new, tol)
    /\ op' = "calculate_path_length"
    /\ UNCHANGED <<voi1, voi2, struct_num_1, struct_num_2, ct, struct_ref, struct_new,
                   batch_vars>>

CallSurfaceDsc ==
    /\ op = "none"
    /\ \E tol \in ToleranceLists :
          /\ tolerance' = tol
          /\ result' = calculate_surface_dsc(ct, struct_ref, struct_new, tol)
    /\ op' = "calculate_surface_dsc"
    /\ UNCHANGED <<voi1, voi2, struct_num_1, struct_num_2, ct, struct_ref, struct_new,
                   batch_vars>>

CallVoxelDiffCounts ==
    /\ op = "none"
    /\ \E tol \in ToleranceLists :
          /\ tolerance' = tol
          /\ result' = calculate_voxel_diff_counts(ct, struct_ref, struct_new, tol)
    /\ op' = "calculate_voxel_diff_counts"
    /\ UNCHANGED <<voi1, voi2, struct_num_1, struct_num_2, ct, struct_ref, struct_new,
                   batch_vars>>

NextMetrics ==
    \/ CallDifferentPathLengthV2
    \/ CallPathLength
    \/ CallSurfaceDsc
    \/ CallVoxelDiffCounts

SpecMetrics == InitMetrics /\ [][NextMetrics]_vars

(***************************************************************************)
(* The resampling harness: one structure on a grid, with contour points    *)
(* in the grid, moderately outside it, and beyond the outside-grid limit,  *)
(* and closed rectangular contours.                                        *)
(***************************************************************************)
\* lattice coordinates around the edges of the grid: far below, just below,
\* first voxel, last voxel of FullGrid, just above and far above the
\* largest grid of the harness
WideLatticeX ==
    {-(outside_grid_limit + 2), -1, 0, PixelNumXi - 1, PixelNumXi + 1,
     PixelNumXi + outside_grid_limit + 1}

WideLatticeY == {-(outside_grid_limit + 2)} \cup LatticeY

WideLatticeZ ==
    {-(outside_grid_limit + 2), -1, 0, PixelNumZi - 1, PixelNumZi + 1,
     PixelNumZi + outside_grid_limit + 1}

WideSlicesOfLen(n) ==
    {[X |-> xs, Y |-> [i \in 1 .. n |-> y], Z |-> zs] :
        xs \in [1 .. n -> WideLatticeX], y \in WideLatticeY,
        zs \in [1 .. n -> WideLatticeZ]}

\* the closed contour around the rectangle x1..x2 by z1..z2 in plane y:
\* four corners and the first corner again
RectangleSlice(x1, x2, z1, z2, y) ==
    [X |-> <<x1, x2, x2, x1, x1>>,
     Y |-> <<y, y, y, y, y>>,
     Z |-> <<z1, z1, z2, z2, z1>>]

RectangleSlices ==
    {RectangleSlice(x1, x2, z1, z2, y) :
        x1 \in 0 .. PixelNumXi, x2 \in 0 .. PixelNumXi,
        z1 \in 0 .. PixelNumZi, z2 \in 0 .. PixelNumZi, y \in LatticeY}

ResampleSlices ==
    UNION {WideSlicesOfLen(n) : n \in 0 .. MaxPoints} \cup RectangleSlices

ResampleStructures == UNION {[1 .. m -> ResampleSlices] : m \in 0 .. MaxSlices}

\* the grids of the harness: the scan of the metrics, a scan one voxel
\* larger in X and Z, and a single-slice scan
ResampleGrids ==
    {FullGrid,
     GridOf(PixelNumXi + 1, PixelNumYi, PixelNumZi + 1),
     GridOf(PixelNumXi + 1, 1, PixelNumZi + 1)}

InitResample ==
    /\ voi1 = NoVolume
    /\ voi2 = NoVolume
    /\ struct_num_1 = 1
    /\ struct_num_2 = 1
    /\ ct \in ResampleGrids
    /\ struct_ref \in ResampleStructures
    /\ struct_new = NoStruct
    /\ tolerance = NoTolerance
    /\ op = "none"
    /\ result = NoResult
    /\ NoBatch

CallResample ==
    /\ op = "none"
    /\ op' = "resample_contour_slices"
    /\ result' = resample_contour_slices(struct_ref, ct)
    /\ UNCHANGED <<voi1, voi2, struct_num_1, struct_num_2, ct, struct_ref,
                   struct_new, tolerance, batch_vars>>

NextResample == CallResample

SpecResample == InitResample /\ [][NextResample]_vars

(***************************************************************************)
(* The voxel-difference harness on scans that may have no column or no     *)
(* row: the only scans on which the crop region comes out empty.           *)
(***************************************************************************)
VoxelDiffGrids ==
    {FullGrid,
     GridOf(0, PixelNumYi, PixelNumZi),
     GridOf(PixelNumXi, PixelNumYi, 0)}

\* the comparison structure has at most one point per slice
PointStructures ==
    {s \in Structures : \A i \in DOMAIN s : Len(s[i].X) <= 1}

InitVoxelDiff ==
    /\ voi1 = NoVolume
    /\ voi2 = NoVolume
    /\ struct_num_1 = 1
    /\ struct_num_2 = 1
    /\ ct \in VoxelDiffGrids
    /\ struct_ref \in Structures
    /\ struct_new \in PointStructures
    /\ tolerance = NoTolerance
    /\ op = "none"
    /\ result = NoResult
    /\ NoBatch

NextVoxelDiff == CallVoxelDiffCounts

SpecVoxelDiff == InitVoxelDiff /\ [][NextVoxelDiff]_vars

(***************************************************************************)
(* The composing harness: a structure set in which at most two structures  *)
(* have slices, at positions around the capacity of the packed volume.     *)
(***************************************************************************)
EmptySlice == [X |-> <<>>, Y |-> <<>>, Z |-> <<>>, dY |-> 0]

\* a rectangular contour in scan plane y, dy hundredths above it
ComposeSlice(x1, x2, z1, z2, y, dy) ==
    [X |-> <<x1, x2, x2, x1, x1>>,
     Y |-> <<y, y, y, y, y>>,
     Z |-> <<z1, z1, z2, z2, z1>>,
     dY |-> dy]

\* where a slice lies: on scan plane 0 or 1, near plane 1 (0.1 above it),
\* between planes 1 and 2 (0.4 above plane 1), below or above the scan
SlicePlanes ==
    {<<0, 0>>, <<1, 0>>, <<1, 10>>, <<1, 40>>, <<-1, 0>>, <<PixelNumYi, 0>>}

\* the slices of the first structure: one rectangle anywhere, a second
\* rectangle that reaches beyond the grid, or no points
FirstSlices ==
    {ComposeSlice(0, 2, 0, 1, yd[1], yd[2]) : yd \in SlicePlanes}
        \cup {ComposeSlice(1, PixelNumXi, 0, 2, 0, 0), EmptySlice}

FirstStructures ==
    UNION {[1 .. m -> FirstSlices] : m \in 0 .. MaxComposeSlices}

\* the slices of the second structure: it overlaps the first on planes 0, 1
SecondStructures ==
    {<<>>,
     <<ComposeSlice(0, 2, 0, 1, 0, 0), ComposeSlice(0, 2, 0, 1, 1, 0)>>,
     <<ComposeSlice(1, PixelNumXi, 0, 2, 0, 0), ComposeSlice(1, PixelNumXi, 0, 2, 1, 0)>>}

StructSetSizes ==
    {2, uint16_structs + 1, uint32_structs + 1, max_structs, max_structs + 1,
     ManyStructs}

\* the positions (1-based) of the two structures that may have slices
Positions(n) == {k \in {1, max_structs, max_structs + 1, n} : k <= n}

\* struct_in: n structures, structure a with slices sa, structure b with
\* slices sb, all others without slices
RtStruct(n, a, sa, b, sb) ==
    [StructNum |-> n,
     Struct |-> [k \in 1 .. n |->
                   [Name |-> k,
                    Slice |-> IF k = a THEN sa ELSE IF k = b THEN sb ELSE <<>>]]]

ComposeGrids == {FullGrid, GridOf(PixelNumXi + 1, PixelNumYi, PixelNumZi)}

InitCompose ==
    /\ voi1 = NoVolume
    /\ voi2 = NoVolume
    /\ struct_num_1 = 1
    /\ struct_num_2 = 1
    /\ ct \in ComposeGrids
    /\ struct_ref = NoStruct
    /\ struct_new = NoStruct
    /\ tolerance = NoTolerance
    /\ op = "none"
    /\ result = NoResult
    /\ \E n \in StructSetSizes : \E a \in Positions(n) : \E b \in Positions(n) :
          /\ a < b
          /\ \E sa \in FirstStructures : \E sb \in SecondStructures :
                rtstruct1 = RtStruct(n, a, sa, b, sb)
    /\ legacy_promotion \in BOOLEAN
    /\ NoDriver

CallComposeStructMatrix ==
    /\ op = "none"
    /\ op' = "compose_struct_matrix"
    /\ result' = compose_struct_matrix(ct, rtstruct1, legacy_promotion)
    /\ UNCHANGED <<voi1, voi2, struct_num_1, struct_num_2, ct, struct_ref,
                   struct_new, tolerance, batch_vars>>

NextCompose == CallComposeStructMatrix

SpecCompose == InitCompose /\ [][NextCompose]_vars

(***************************************************************************)
(* The batch harness: one of the two drivers over up to MaxPatients        *)
(* patients on the full grid.  A patient is either unusable (files or      *)
(* structure sets missing or unreadable) or brings two structure sets.     *)
(***************************************************************************)
\* the same rectangle on the scan planes 0 and 1
TwoSlices(x1, x2, z1, z2) ==
    <<ComposeSlice(x1, x2, z1, z2, 0, 0), ComposeSlice(x1, x2, z1, z2, 1, 0)>>

StructSet(structs) == [StructNum |-> Len(structs), Struct |-> structs]

\* the first structure set: structures 1 and 2, each a slice without points
\* or a rectangle on two planes
StructSets1 ==
    {StructSet(<<[Name |-> 1, Slice |-> s1], [Name |-> 2, Slice |-> s2]>>) :
        s1 \in {<<EmptySlice>>, TwoSlices(0, 2, 0, 1)},
        s2 \in {<<EmptySlice>>, TwoSlices(0, 2, 0, 1)}}

\* the second structure set: the same names in the other order, structure 2
\* missing, or no name in common
StructSets2 ==
    {StructSet(<<[Name |-> 2, Slice |-> TwoSlices(1, 2, 0, 2)],
                 [Name |-> 1, Slice |-> TwoSlices(0, 2, 0, 1)]>>),
     StructSet(<<[Name |-> 1, Slice |-> TwoSlices(1, 2, 0, 2)]>>),
     StructSet(<<[Name |-> 3, Slice |-> TwoSlices(0, 2, 0, 1)]>>)}

PatientData ==
    {[usable |-> TRUE, rtstruct1 |-> r1, rtstruct2 |-> r2] :
        r1 \in StructSets1, r2 \in StructSets2}
        \cup {[usable |-> FALSE, rtstruct1 |-> NoRtstruct, rtstruct2 |-> NoRtstruct]}

InitBatch ==
    /\ voi1 = NoVolume
    /\ voi2 = NoVolume
    /\ struct_num_1 = 1
    /\ struct_num_2 = 1
    /\ ct = FullGrid
    /\ struct_ref = NoStruct
    /\ struct_new = NoStruct
    /\ tolerance = NoTolerance
    /\ op = "none"
    /\ result = NoResult
    /\ rtstruct1 = NoRtstruct
    /\ rtstruct2 = NoRtstruct
    /\ legacy_promotion = FALSE
    /\ driver \in {"quantify_contour_differences",
                   "quantify_contour_differences_p0728"}
    /\ calc_all_parameters \in {0, 1}
    /\ \E n \in 0 .. MaxPatients : patients \in [1 .. n -> PatientData]
    /\ patient_idx = 1
    /\ comparison_no = 0
    \* selected_oars is an argument of quantify_contour_differences_p0728
    \* (<<>>: None) and starts as None in quantify_contour_differences
    /\ selected_oars \in
          IF driver = "quantify_contour_differences"
          THEN {<<>>}
          ELSE {<<>>, <<1>>, <<1, 2>>}
    /\ oars_selected = (selected_oars # <<>>)
    /\ all_results = <<>>
    /\ errors = <<>>
    /\ pc = "patient"

\* the state of the calls the drivers do not make
call_vars == <<struct_num_1, struct_num_2, ct, struct_ref, struct_new, tolerance,
               op, legacy_promotion, driver, calc_all_parameters, patients>>

\* the patient has no usable data, or its structure sets share no name:
\* continue with the next patient
SkipPatient ==
    /\ pc = "patient"
    /\ patient_idx <= Len(patients)
    /\ \/ ~ patients[patient_idx].usable
       \/ CommonVois(Vois(patients[patient_idx].rtstruct1),
                     Vois(patients[patient_idx].rtstruct2)) = <<>>
    /\ patient_idx' = patient_idx + 1
    /\ UNCHANGED <<voi1, voi2, result, rtstruct1, rtstruct2, comparison_no,
                   selected_oars, oars_selected, all_results, errors, pc,
                   call_vars>>

\* the scan and both structure sets are read and share a name
ReadPatient ==
    /\ pc = "patient"
    /\ patient_idx <= Len(patients)
    /\ patients[patient_idx].usable
    /\ CommonVois(Vois(patients[patient_idx].rtstruct1),
                  Vois(patients[patient_idx].rtstruct2)) # <<>>
    /\ rtstruct1' = patients[patient_idx].rtstruct1
    /\ rtstruct2' = patients[patient_idx].rtstruct2
    /\ pc' = "select"
    /\ UNCHANGED <<voi1, voi2, result, patient_idx, comparison_no, selected_oars,
                   oars_selected, all_results, errors, call_vars>>

\* the structures are selected once per run, at the first patient that
\* gets here; the operator answers nothing (all), or one index, which may
\* lie beyond the list
PromptSelection ==
    /\ pc = "select"
    /\ ~ oars_selected
    /\ \E indices \in {<<>>, <<0>>, <<1>>} :
          selected_oars' = SelectOars(CommonVois(Vois(rtstruct1), Vois(rtstruct2)),
                                      indices)
    /\ oars_selected' = TRUE
    /\ UNCHANGED <<voi1, voi2, result, rtstruct1, rtstruct2, patient_idx,
                   comparison_no, all_results, errors, pc, call_vars>>

\* none of the selected structures is present: continue with the next patient
SkipUnselected ==
    /\ pc = "select"
    /\ oars_selected
    /\ ToCompare(Vois(rtstruct1), Vois(rtstruct2), selected_oars) = <<>>
    /\ patient_idx' = patient_idx + 1
    /\ pc' = "patient"
    /\ UNCHANGED <<voi1, voi2, result, rtstruct1, rtstruct2, comparison_no,
                   selected_oars, oars_selected, all_results, errors, call_vars>>

\* voi1 = compose_struct_matrix(imaging_data, rtstruct1), and voi2
ComposeMatrices ==
    /\ pc = "select"
    /\ oars_selected
    /\ ToCompare(Vois(rtstruct1), Vois(rtstruct2), selected_oars) # <<>>
    /\ voi1' = PackedVolume(compose_struct_matrix(ct, rtstruct1, legacy_promotion),
                            rtstruct1.StructNum)
    /\ voi2' = PackedVolume(compose_struct_matrix(ct, rtstruct2, legacy_promotion),
                            rtstruct2.StructNum)
    /\ comparison_no' = 0
    /\ pc' = "structure"
    /\ UNCHANGED <<result, rtstruct1, rtstruct2, patient_idx, selected_oars,
                   oars_selected, all_results, errors, call_vars>>

\* the structure the inner loop is at, in both structure sets (0-based)
method1_struct_no ==
    ToCompare(Vois(rtstruct1), Vois(rtstruct2), selected_oars)[comparison_no + 1]

voi_name == Vois(rtstruct1)[method1_struct_no + 1]

\* variant that reuses the index of the first structure set
method2_struct_no_same == method1_struct_no

method2_struct_no == IndexOf(Vois(rtstruct2), voi_name)

InStructureLoop ==
    /\ pc = "structure"
    /\ comparison_no < Len(ToCompare(Vois(rtstruct1), Vois(rtstruct2), selected_oars))

is_empty ==
    \/ ~ has_contour_points_local(rtstruct1.Struct[method1_struct_no + 1])
    \/ ~ has_contour_points_local(rtstruct2.Struct[method2_struct_no + 1])

\* what the metrics block does for the structure the loop is at
Outcome ==
    StructureMetrics(calc_all_parameters, ct, rtstruct1, rtstruct2, voi1, voi2,
                     method1_struct_no, method2_struct_no, patient_idx)

\* an empty contour on either side: warn and continue
SkipEmptyStructure ==
    /\ InStructureLoop
    /\ is_empty
    /\ comparison_no' = comparison_no + 1
    /\ UNCHANGED <<voi1, voi2, result, rtstruct1, rtstruct2, patient_idx,
                   selected_oars, oars_selected, all_results, errors, pc,
                   call_vars>>

\* every metric is computed and the record appended
AppendRecord ==
    /\ InStructureLoop
    /\ ~ is_empty
    /\ ~ Outcome.raised
    /\ all_results' = AppendResult(all_results, Outcome)
    /\ comparison_no' = comparison_no + 1
    /\ UNCHANGED <<voi1, voi2, result, rtstruct1, rtstruct2, patient_idx,
                   selected_oars, oars_selected, errors, pc, call_vars>>

\* quantify_contour_differences has no handler around the metrics: the
\* exception leaves the function
PropagateException ==
    /\ InStructureLoop
    /\ driver = "quantify_contour_differences"
    /\ ~ is_empty
    /\ Outcome.raised
    /\ all_results' = AppendResult(all_results, Outcome)
    /\ errors' = Append(errors, <<patient_idx, voi_name>>)
    /\ result' = TypeError
    /\ pc' = "raised"
    /\ UNCHANGED <<voi1, voi2, rtstruct1, rtstruct2, patient_idx, comparison_no,
                   selected_oars, oars_selected, call_vars>>

\* quantify_contour_differences_p0728: except Exception: print, continue
CatchException ==
    /\ InStructureLoop
    /\ driver = "quantify_contour_differences_p0728"
    /\ ~ is_empty
    /\ Outcome.raised
    /\ all_results' = AppendResult(all_results, Outcome)
    /\ errors' = Append(errors, <<patient_idx, voi_name>>)
    /\ comparison_no' = comparison_no + 1
    /\ UNCHANGED <<voi1, voi2, result, rtstruct1, rtstruct2, patient_idx,
                   selected_oars, oars_selected, pc, call_vars>>

\* the inner loop is through: next patient
NextPatient ==
    /\ pc = "structure"
    /\ comparison_no >= Len(ToCompare(Vois(rtstruct1), Vois(rtstruct2),
                                      selected_oars))
    /\ patient_idx' = patient_idx + 1
    /\ pc' = "patient"
    /\ UNCHANGED <<voi1, voi2, result, rtstruct1, rtstruct2, comparison_no,
                   selected_oars, oars_selected, all_results, errors, call_vars>>

\* the outer loop is through: the sorted table is returned
ReturnTable ==
    /\ pc = "patient"
    /\ patient_idx > Len(patients)
    /\ result' = ResultsTable(all_results, driver)
    /\ pc' = "returned"
    /\ UNCHANGED <<voi1, voi2, rtstruct1, rtstruct2, patient_idx, comparison_no,
                   selected_oars, oars_selected, all_results, errors, call_vars>>

NextBatch ==
    \/ SkipPatient
    \/ ReadPatient
    \/ PromptSelection
    \/ SkipUnselected
    \/ ComposeMatrices
    \/ SkipEmptyStructure
    \/ AppendRecord
    \/ PropagateException
    \/ CatchException
    \/ NextPatient
    \/ ReturnTable

SpecBatch == InitBatch /\ [][NextBatch]_vars

(***************************************************************************)
(* The emptiness harness: one structure entry whose slices are dicts of    *)
(* either form, well formed or not.                                        *)
(***************************************************************************)
\* the slices: a ContourData vector with a point, empty, or None; X/Y/Z
\* vectors with a point or empty; a slice without the Z key; the empty dict
SliceForms ==
    <<[ContourData |-> <<0, 0, 0>>],
      [ContourData |-> <<>>],
      [ContourData |-> <<>>, none |-> {"ContourData"}],
      [X |-> <<0>>, Y |-> <<0>>, Z |-> <<0>>],
      [X |-> <<>>, Y |-> <<>>, Z |-> <<>>],
      [X |-> <<0>>, Y |-> <<0>>],
      <<>>>>

\* the structure entries: without the key 'Slice', or with up to
\* MaxEntrySlices slices
StructEntries ==
    {[Name |-> 1]}
        \cup {[Name |-> 1, Slice |-> [k \in 1 .. m |-> SliceForms[f[k]]]] :
                 m \in 0 .. MaxEntrySlices, f \in [1 .. MaxEntrySlices -> DOMAIN SliceForms]}

InitPoints ==
    /\ voi1 = NoVolume
    /\ voi2 = NoVolume
    /\ struct_num_1 = 1
    /\ struct_num_2 = 1
    /\ ct = FullGrid
    /\ struct_ref = NoStruct
    /\ struct_new = NoStruct
    /\ tolerance = NoTolerance
    /\ op = "none"
    /\ result = NoResult
    /\ \E e \in StructEntries : rtstruct1 = [StructNum |-> 1, Struct |-> <<e>>]
    /\ legacy_promotion = FALSE
    /\ NoDriver

CallHasContourPoints ==
    /\ op = "none"
    /\ op' = "has_contour_points_local"
    /\ result' = [kind |-> "bool",
                  value |-> has_contour_points_local(rtstruct1.Struct[1])]
    /\ UNCHANGED <<voi1, voi2, struct_num_1, struct_num_2, ct, struct_ref,
                   struct_new, tolerance, batch_vars>>

NextPoints == CallHasContourPoints

SpecPoints == InitPoints /\ [][NextPoints]_vars

\* the two boolean masks the call extracts
MaskA == BitPlane(voi1, struct_num_1 - 1)

MaskB == BitPlane(voi2, struct_num_2 - 1)

(***************************************************************************)
(* C1: calculate_dice_logical returns exactly 1.0 whenever both extracted  *)
(* bit-planes are empty.                                                   *)
(***************************************************************************)
C1_BothEmptyIsOne ==
    (op = "calculate_dice_logical" /\ MaskA = {} /\ MaskB = {})
        => (result = One)

\* both planes empty although other structures' bits are set in the volumes
C1_Witness ==
    /\ op = "calculate_dice_logical"
    /\ MaskA = {}
    /\ MaskB = {}
    /\ \E c \in Cells : voi1[c] # 0
    /\ result = One

(***************************************************************************)
(* C2: calculate_dice returns 1.0 when both extracted bit-planes are       *)
(* empty (all-zero volumes), as test_calculate_dice asserts.               *)
(***************************************************************************)
C2_DiceBothEmptyIsOne ==
    (op = "calculate_dice" /\ MaskA = {} /\ MaskB = {})
        => FloatEq(result, One)

(***************************************************************************)
(* C3: calculate_dice_logical extracts bit struct_num-1 of each volume as  *)
(* masks A and B and, when |A|+|B| > 0, returns 2*|A n B| / (|A|+|B|);     *)
(* bits of other structures in the same cells do not affect the result.    *)
(***************************************************************************)
\* bit b of the integer n, by repeated halving
RECURSIVE BitOf(_, _)
BitOf(n, b) == IF b = 0 THEN n % 2 ELSE BitOf(n \div 2, b - 1)

SpecMaskA == {c \in Cells : BitOf(voi1[c], struct_num_1 - 1) = 1}

SpecMaskB == {c \in Cells : BitOf(voi2[c], struct_num_2 - 1) = 1}

C3_DiceFormula ==
    (op = "calculate_dice_logical"
        /\ Cardinality(SpecMaskA) + Cardinality(SpecMaskB) > 0)
        => /\ IsFinite(result)
           /\ result.num * (Cardinality(SpecMaskA) + Cardinality(SpecMaskB))
                = 2 * Cardinality(SpecMaskA \cap SpecMaskB) * result.den

\* a partial overlap in cells that also carry another structure's bit
C3_Witness ==
    /\ op = "calculate_dice_logical"
    /\ Cardinality(SpecMaskA \cap SpecMaskB) = 1
    /\ Cardinality(SpecMaskA) + Cardinality(SpecMaskB) = 3
    /\ \E c \in SpecMaskA : voi1[c] # 2 ^ (struct_num_1 - 1)
    /\ FloatEq(result, Float(2, 3))

(***************************************************************************)
(* C4: Dice is symmetric: calculate_dice_logical(voiA, voiB, a, b) equals  *)
(* calculate_dice_logical(voiB, voiA, b, a).                               *)
(***************************************************************************)
C4_DiceSymmetric ==
    (op = "calculate_dice_logical")
        => FloatEq(result,
                   calculate_dice_logical(voi2, voi1, struct_num_2, struct_num_1))

\* masks of different sizes taken from different bits
C4_Witness ==
    /\ op = "calculate_dice_logical"
    /\ struct_num_1 # struct_num_2
    /\ Cardinality(MaskA) # Cardinality(MaskB)
    /\ MaskA \cap MaskB # {}
    /\ FloatEq(result,
               calculate_dice_logical(voi2, voi1, struct_num_2, struct_num_1))

(***************************************************************************)
(* C5: for masks A, B not both empty, calculate_dice_logical returns 1.0   *)
(* when A = B and 0.0 when A and B share no voxel; every result lies in    *)
(* [0, 1].                                                                 *)
(***************************************************************************)
C5_DiceExtremes ==
    (op = "calculate_dice_logical")
        => /\ FloatLeq(Zero, result)
           /\ FloatLeq(result, One)
           /\ (MaskA = MaskB /\ MaskA # {}) => FloatEq(result, One)
           /\ (MaskA \cap MaskB = {} /\ MaskA \cup MaskB # {})
                  => FloatEq(result, Zero)

C5_Witness ==
    /\ op = "calculate_dice_logical"
    /\ MaskA = MaskB
    /\ Cardinality(MaskA) = 2
    /\ voi1 # voi2
    /\ FloatEq(result, One)

\* the other extreme: disjoint, non-empty masks
C5_WitnessDisjoint ==
    /\ op = "calculate_dice_logical"
    /\ MaskA # {}
    /\ MaskB # {}
    /\ MaskA \cap MaskB = {}
    /\ FloatEq(result, Zero)

(***************************************************************************)
(* The masks of the two compared structures, and the metric counts taken   *)
(* on the whole volume instead of the crop.                                *)
(***************************************************************************)
RefMask == resample_contour_slices(struct_ref, ct).vol

NewMask == resample_contour_slices(struct_new, ct).vol

WholeVolume ==
    [min_x |-> 0, max_x |-> ct.PixelNumXi, min_z |-> 0, max_z |-> ct.PixelNumZi]

FullOutsideCount(tol, ii) ==
    Cardinality({v \in NewMask.vox :
        /\ v[2] = ii
        /\ v \notin WithinTolerance(AsBool(Crop(RefMask, WholeVolume)), tol)})

(***************************************************************************)
(* C6: cropping to the union of the bounding boxes never changes a metric: *)
(* the voxel count of calculate_different_path_length_v2 (margin 0),       *)
(* taken on contour[minX:maxX, :, minZ:maxZ], equals the count taken on    *)
(* the uncropped volumes, on every Y-slice and for every tolerance.        *)
(***************************************************************************)
C6_CropKeepsCount ==
    (op = "calculate_different_path_length_v2"
        /\ RefMask.vox # {}
        /\ NewMask.vox # {})
        => \A ii \in YSlices(ct) : \A t \in DOMAIN tolerance :
               result.count[ii][t] = FullOutsideCount(tolerance[t], ii)

(***************************************************************************)
(* C7: every value calculate_surface_dsc returns lies in [0, 1].           *)
(***************************************************************************)
SdscValues ==
    IF result.kind = "float" THEN {result}
    ELSE IF result.kind = "array" THEN {result.vals[t] : t \in DOMAIN result.vals}
    ELSE {}

C7_SurfaceDscInUnitInterval ==
    (op = "calculate_surface_dsc"
        /\ RefMask.vox # {}
        /\ NewMask.vox # {})
        => /\ result.kind \in {"float", "array"}
           /\ \A v \in SdscValues : FloatLeq(Zero, v) /\ FloatLeq(v, One)

(***************************************************************************)
(* C8: surface DSC is non-decreasing in tolerance: for tolerances          *)
(* t1 <= t2 the value calculate_surface_dsc returns at t1 is <= its value  *)
(* at t2.                                                                  *)
(***************************************************************************)
C8_SurfaceDscMonotone ==
    (op = "calculate_surface_dsc"
        /\ RefMask.vox # {}
        /\ NewMask.vox # {}
        /\ Len(tolerance) = 2
        /\ tolerance[1] <= tolerance[2])
        => /\ result.kind = "array"
           /\ FloatLeq(result.vals[1], result.vals[2])

(***************************************************************************)
(* C9: the added path length between two identical contours is 0 on every  *)
(* Y-slice for every tolerance >= 0, in calculate_path_length and in       *)
(* calculate_different_path_length_v2.                                     *)
(***************************************************************************)
C9_IdenticalContoursZero ==
    (op \in {"calculate_path_length", "calculate_different_path_length_v2"}
        /\ struct_ref = struct_new
        /\ RefMask.vox # {})
        => /\ result.kind = "path_length"
           /\ \A ii \in YSlices(ct) : \A t \in DOMAIN tolerance :
                  result.count[ii][t] = 0

(***************************************************************************)
(* C10: calculate_voxel_diff_counts at tolerance 0 on two identical masks  *)
(* returns 0.                                                              *)
(***************************************************************************)
C10_IdenticalMasksZero ==
    (op = "calculate_voxel_diff_counts"
        /\ RefMask = NewMask
        /\ RefMask.vox # {}
        /\ \A t \in DOMAIN tolerance : tolerance[t] = 0)
        => /\ result.kind = "array"
           /\ \A t \in DOMAIN result.vals : result.vals[t] = 0

(***************************************************************************)
(* C11: when the crop region of calculate_voxel_diff_counts is empty after *)
(* clamping (min_x >= max_x or min_z >= max_z), the function returns one   *)
(* zero per requested tolerance and raises no error.                       *)
(***************************************************************************)
\* the crop bounds of the call in the current state
VoxelDiffBounds ==
    CropBounds(resample_contour_slices(struct_ref, ct).minmax,
               resample_contour_slices(struct_new, ct).minmax,
               range_margin_voxel_diff, ct)

EmptyCropRegion ==
    \/ VoxelDiffBounds.min_x >= VoxelDiffBounds.max_x
    \/ VoxelDiffBounds.min_z >= VoxelDiffBounds.max_z

C11_EmptyCropZeros ==
    (op = "calculate_voxel_diff_counts" /\ EmptyCropRegion)
        => /\ result.kind = "array"
           /\ Len(result.vals) = Len(tolerance)
           /\ \A t \in DOMAIN result.vals : result.vals[t] = 0

\* an empty crop for two structures that both have contour points, asked
\* for two tolerances
C11_Witness ==
    /\ op = "calculate_voxel_diff_counts"
    /\ EmptyCropRegion
    /\ ContourRows(struct_ref) # {}
    /\ ContourRows(struct_new) # {}
    /\ Len(tolerance) = 2
    /\ result = [kind |-> "array", vals |-> <<0, 0>>]

\* a single tolerance
C11_WitnessSingle ==
    /\ op = "calculate_voxel_diff_counts"
    /\ EmptyCropRegion
    /\ Len(tolerance) = 1
    /\ result = [kind |-> "array", vals |-> <<0>>]

(***************************************************************************)
(* C12: resample_contour_slices never raises and returns an all-zero mask  *)
(* of the full grid shape whenever no valid point remains: when no slice   *)
(* has any point, and when every point lies more than the outside-grid     *)
(* limit (5 voxels) beyond the grid.                                       *)
(***************************************************************************)
\* the 1-based subscripts of the contour's upsampled points
RefRows == ContourRows(struct_ref)

\* a subscript row more than the limit beyond the grid on some axis
BeyondLimit(r) ==
    \/ r[1] < -outside_grid_limit \/ r[1] > ct.PixelNumXi + outside_grid_limit
    \/ r[2] < -outside_grid_limit \/ r[2] > ct.PixelNumYi + outside_grid_limit
    \/ r[3] < -outside_grid_limit \/ r[3] > ct.PixelNumZi + outside_grid_limit

NoValidPoint == \A r \in RefRows : BeyondLimit(r)

IsZeroMaskOfGrid(vol) ==
    /\ vol.shape = <<ct.PixelNumXi, ct.PixelNumYi, ct.PixelNumZi>>
    /\ vol.vox = {}

C12_WitnessEmpty ==
    /\ op = "resample_contour_slices"
    /\ Len(struct_ref) = 1
    /\ RefRows = {}
    /\ IsZeroMaskOfGrid(result.vol)

(***************************************************************************)
(* C13: for empty input (no slice has points) resample_contour_slices      *)
(* returns a zero-valued bounding box: minX = maxX = minZ = maxZ = 0.      *)
(***************************************************************************)
C13_EmptyInputZeroBox ==
    (op = "resample_contour_slices" /\ RefRows = {})
        => result.minmax = [minX |-> 0, maxX |-> 0, minZ |-> 0, maxZ |-> 0]

\* C13 as amended: for empty input the bounding box is the degenerate box
\* at the first 1-based subscript, minX = maxX = minZ = maxZ = 1.
C13_EmptyInputUnitBox ==
    (op = "resample_contour_slices" /\ RefRows = {})
        => result.minmax = [minX |-> 1, maxX |-> 1, minZ |-> 1, maxZ |-> 1]

C13_Witness ==
    /\ op = "resample_contour_slices"
    /\ Len(struct_ref) = 1
    /\ RefRows = {}
    /\ result.minmax = [minX |-> 1, maxX |-> 1, minZ |-> 1, maxZ |-> 1]

(***************************************************************************)
(* C14: for a slice holding a closed polygon with more than two points,    *)
(* resample_contour_slices sets exactly the voxels inside and on that      *)
(* polygon: an axis-aligned rectangular contour sets its interior voxels   *)
(* as well as its edge voxels.                                             *)
(***************************************************************************)
IsRectangle ==
    /\ Len(struct_ref) = 1
    /\ struct_ref[1] \in RectangleSlices
    /\ struct_ref[1].X[1] < struct_ref[1].X[2]
    /\ struct_ref[1].Z[1] < struct_ref[1].Z[3]

\* the rectangle's corners and plane, as lattice coordinates
RectX1 == struct_ref[1].X[1]

RectX2 == struct_ref[1].X[2]

RectZ1 == struct_ref[1].Z[1]

RectZ2 == struct_ref[1].Z[3]

RectY == struct_ref[1].Y[1]

\* no point of the rectangle reaches the last voxel of an axis
RectangleInsideGrid ==
    /\ RectX2 + 1 <= ct.PixelNumXi - 1
    /\ RectZ2 + 1 <= ct.PixelNumZi - 1
    /\ RectY + 1 <= ct.PixelNumYi - 1

SpecClamp(v, n) == IF v > n - 1 THEN n - 1 ELSE v

RingX1 == SpecClamp(RectX1 + 1, ct.PixelNumXi) - 1

RingX2 == SpecClamp(RectX2 + 1, ct.PixelNumXi) - 1

RingZ1 == SpecClamp(RectZ1 + 1, ct.PixelNumZi) - 1

RingZ2 == SpecClamp(RectZ2 + 1, ct.PixelNumZi) - 1

RingY == SpecClamp(RectY + 1, ct.PixelNumYi) - 1

RectangleRing ==
    {v \in (RingX1 .. RingX2) \X {RingY} \X (RingZ1 .. RingZ2) :
        v[1] \in {RingX1, RingX2} \/ v[3] \in {RingZ1, RingZ2}}

WithinLimit == RefRows # {} /\ \A r \in RefRows : ~ BeyondLimit(r)

PlaneOf(bits, i) == {b[1] : b \in {q \in bits : q[2] = i}}

\* the structure set cut down to its first max_structs structures
FirstStructs(struct_in) ==
    [StructNum |-> max_structs,
     Struct |-> SubSeq(struct_in.Struct, 1, max_structs)]

\* the structure set with the slices of every structure but the k-th removed
OnlyStruct(struct_in, k) ==
    [StructNum |-> struct_in.StructNum,
     Struct |-> [j \in 1 .. struct_in.StructNum |->
                   IF j = k
                   THEN struct_in.Struct[j]
                   ELSE [Name |-> j, Slice |-> <<>>]]]

\* the structures of the set that have slices (1-based)
WithSlices == {k \in 1 .. rtstruct1.StructNum : rtstruct1.Struct[k].Slice # <<>>}

(***************************************************************************)
(* C16: compose_struct_matrix given more than 64 structures emits the      *)
(* capacity diagnostic and produces a 64-bit volume in which only          *)
(* structures 0..63 can set a bit (structure i only bit i); structures     *)
(* with index >= 64 leave no trace in the volume.                          *)
(***************************************************************************)
C16_OnlyFirst64 ==
    (op = "compose_struct_matrix" /\ rtstruct1.StructNum > max_structs)
        => /\ "too many structs" \in result.diag
           /\ result.dtype = "uint64"
           /\ \A b \in result.bits :
                  /\ b[2] \in 0 .. (max_structs - 1)
                  /\ b[1] \in StructVoxels(ct, rtstruct1.Struct[b[2] + 1])
           /\ result.bits =
                  compose_struct_matrix(ct, FirstStructs(rtstruct1),
                                        legacy_promotion).bits

\* 70 structures: the 64th sets bit 63, the 70th would set voxels but
\* leaves no bit
C16_Witness ==
    /\ op = "compose_struct_matrix"
    /\ rtstruct1.StructNum = ManyStructs
    /\ StructVoxels(ct, rtstruct1.Struct[ManyStructs]) # {}
    /\ PlaneOf(result.bits, max_structs - 1) # {}
    /\ \A b \in result.bits : b[2] = max_structs - 1
    /\ "too many structs" \in result.diag

(***************************************************************************)
(* C17: rasterizing structure i only ever sets bit i, so overlapping       *)
(* structures each keep their own bit, and extracting bit i yields         *)
(* structure i's mask independent of the other structures.                 *)
(***************************************************************************)
C17_BitIndependence ==
    (op = "compose_struct_matrix")
        => /\ \A b \in result.bits : b[2] + 1 \in WithSlices
           /\ \A k \in WithSlices :
                  PlaneOf(result.bits, k - 1) =
                      PlaneOf(compose_struct_matrix(ct, OnlyStruct(rtstruct1, k),
                                                    legacy_promotion).bits, k - 1)

\* two structures with different masks that share a voxel
C17_Witness ==
    /\ op = "compose_struct_matrix"
    /\ \E i \in 0 .. (max_structs - 1) : \E j \in 0 .. (max_structs - 1) :
          /\ i < j
          /\ PlaneOf(result.bits, i) \cap PlaneOf(result.bits, j) # {}
          /\ PlaneOf(result.bits, i) # PlaneOf(result.bits, j)
          /\ PlaneOf(result.bits, i) = StructVoxels(ct, rtstruct1.Struct[i + 1])
          /\ PlaneOf(result.bits, j) = StructVoxels(ct, rtstruct1.Struct[j + 1])

(***************************************************************************)
(* C18: when a slice's Y position lies inside the scan's Y range but       *)
(* matches no scan slice within the tolerance band, only that slice is     *)
(* skipped (with the discrepancy diagnostic): every later slice of the     *)
(* same structure that does match a scan slice is still rasterized.        *)
(***************************************************************************)
C18_LaterSlicesRasterized ==
    (op = "compose_struct_matrix" /\ ~ legacy_promotion)
        => \A k \in {q \in WithSlices : q <= max_structs} :
              \A j \in DOMAIN rtstruct1.Struct[k].Slice :
                 (/\ Len(rtstruct1.Struct[k].Slice) > 1
                  /\ \E d \in 1 .. (j - 1) :
                        SliceBranch(ct, rtstruct1.Struct[k].Slice[d]) = "discrepancy"
                  /\ SliceBranch(ct, rtstruct1.Struct[k].Slice[j]) = "match")
                     => /\ "discrepancy" \in result.diag
                        /\ SliceVoxels(ct, rtstruct1.Struct[k].Slice[j])
                               \subseteq PlaneOf(result.bits, k - 1)

(***************************************************************************)
(* The records of the batch drivers.                                       *)
(***************************************************************************)
\* the fields a complete record has
RecordFields ==
    IF calc_all_parameters = 0
    THEN {"pNumber", "VOIName", "Dice"}
    ELSE {"pNumber", "VOIName", "Dice", "APL", "SDSC"}

\* every field is there and holds a value
CompleteRecord(r) ==
    /\ DOMAIN r = RecordFields
    /\ r.Dice.kind = "float"
    /\ calc_all_parameters # 0 => r.SDSC.kind = "float"

\* the structure of record r is one whose metrics raised
FailedRecord(r) == \E k \in DOMAIN errors : errors[k] = <<r.pNumber, r.VOIName>>

(***************************************************************************)
(* C19: in the batch drivers a result record is complete or absent: every  *)
(* record of the returned table has pNumber, VOIName and Dice, and when    *)
(* calc_all_parameters != 0 also APL and SDSC; a record for which a        *)
(* metric computation failed is never appended.                            *)
(***************************************************************************)
C19_RecordCompleteOrAbsent ==
    /\ \A k \in DOMAIN all_results :
          CompleteRecord(all_results[k]) /\ ~ FailedRecord(all_results[k])
    /\ pc = "returned"
          => /\ result.kind = "DataFrame"
             /\ Len(result.rows) = Len(all_results)
             /\ \A k \in DOMAIN result.rows :
                   /\ CompleteRecord(result.rows[k])
                   /\ ~ FailedRecord(result.rows[k])
                   /\ \E j \in DOMAIN all_results : all_results[j] = result.rows[k]

\* a table is returned after the metrics of a structure failed: its record
\* is absent
C19_Witness ==
    /\ pc = "returned"
    /\ calc_all_parameters # 0
    /\ errors # <<>>
    /\ result.kind = "DataFrame"
    /\ \A k \in DOMAIN result.rows : ~ FailedRecord(result.rows[k])

\* a table with the records of two patients is returned
C19_WitnessComplete ==
    /\ pc = "returned"
    /\ Len(result.rows) > 1
    /\ \E j \in DOMAIN result.rows : \E k \in DOMAIN result.rows :
          result.rows[j].pNumber # result.rows[k].pNumber

(***************************************************************************)
(* C20: a failure (exception) while computing the metrics of one           *)
(* structure does not abort the batch: in both drivers the remaining       *)
(* structures and patients are still processed and the results recorded    *)
(* before the failure are still returned.                                  *)
(***************************************************************************)
C20_FailureDoesNotAbort ==
    errors # <<>> => pc # "raised" /\ result.kind # "TypeError"

\* quantify_contour_differences_p0728 alone goes on after a failure
C20_CaughtInP0728 ==
    (driver = "quantify_contour_differences_p0728" /\ errors # <<>>)
        => pc # "raised" /\ result.kind # "TypeError"

(***************************************************************************)
(* The structures of the current patient the inner loop is through with.   *)
(***************************************************************************)
\* the entries of to_compare the loop has left behind (0-based positions)
ComparisonsDone ==
    {j \in 0 .. (comparison_no - 1) :
        j < Len(ToCompare(Vois(rtstruct1), Vois(rtstruct2), selected_oars))}

\* the index in rtstruct1 of the j-th compared structure, and in rtstruct2
DoneStructNo1(j) ==
    ToCompare(Vois(rtstruct1), Vois(rtstruct2), selected_oars)[j + 1]

DoneStructNo2(j) ==
    IndexOf(Vois(rtstruct2), Vois(rtstruct1)[DoneStructNo1(j) + 1])

\* the j-th compared structure has contour points in both structure sets
DoneHasPoints(j) ==
    /\ has_contour_points_local(rtstruct1.Struct[DoneStructNo1(j) + 1])
    /\ has_contour_points_local(rtstruct2.Struct[DoneStructNo2(j) + 1])

\* the records of the current patient for structure name
RecordsOf(name) ==
    {k \in DOMAIN all_results :
        /\ all_results[k].pNumber = patient_idx
        /\ all_results[k].VOIName = name}

(***************************************************************************)
(* C21: with calc_all_parameters = 1, for every commonly named, selected   *)
(* structure that has contour points in both structure sets,               *)
(* quantify_contour_differences_p0728 appends exactly one record carrying  *)
(* Dice, APL and SDSC.                                                     *)
(***************************************************************************)
C21_OneFullRecordPerStructure ==
    (/\ driver = "quantify_contour_differences_p0728"
     /\ calc_all_parameters = 1
     /\ pc = "structure")
        => \A j \in ComparisonsDone :
              DoneHasPoints(j)
                 => /\ Cardinality(RecordsOf(Vois(rtstruct1)[DoneStructNo1(j) + 1])) = 1
                    /\ \A k \in RecordsOf(Vois(rtstruct1)[DoneStructNo1(j) + 1]) :
                          /\ DOMAIN all_results[k] =
                                {"pNumber", "VOIName", "Dice", "APL", "SDSC"}
                          /\ all_results[k].SDSC.kind = "float"

(***************************************************************************)
(* The structure entry of the emptiness call.                              *)
(***************************************************************************)
\* the slice holds at least one point, in either form
SliceHasPoint(s) ==
    \/ SliceHas(s, "ContourData")
    \/ SliceHas(s, "X") /\ SliceHas(s, "Y") /\ SliceHas(s, "Z")

\* the entry has at least one slice with at least one point
EntryHasPoint(e) ==
    /\ "Slice" \in DOMAIN e
    /\ \E k \in DOMAIN e.Slice : SliceHasPoint(e.Slice[k])

(***************************************************************************)
(* C22: has_contour_points_local returns True exactly when the structure   *)
(* has at least one slice with at least one point, and False otherwise,    *)
(* for every mix of slices given as ContourData or as X/Y/Z vectors.       *)
(***************************************************************************)
C22_TrueIffSomePoint ==
    op = "has_contour_points_local"
        => result.value = EntryHasPoint(rtstruct1.Struct[1])

\* slices of one form only, each with all its keys: there the function is
\* right
C22_OneFormOnly ==
    (/\ op = "has_contour_points_local"
     /\ "Slice" \in DOMAIN rtstruct1.Struct[1]
     /\ \/ \A k \in DOMAIN rtstruct1.Struct[1].Slice :
              DOMAIN rtstruct1.Struct[1].Slice[k] # {}
                 /\ "ContourData" \in DOMAIN rtstruct1.Struct[1].Slice[k]
        \/ \A k \in DOMAIN rtstruct1.Struct[1].Slice :
              DOMAIN rtstruct1.Struct[1].Slice[k] # {}
                 /\ {"X", "Y", "Z"} \subseteq DOMAIN rtstruct1.Struct[1].Slice[k])
        => result.value = EntryHasPoint(rtstruct1.Struct[1])

(***************************************************************************)
(* The crops the path-length call of the current state works on.           *)
(***************************************************************************)
PathLengthMargin ==
    IF op = "calculate_different_path_length_v2"
    THEN range_margin_v2
    ELSE margin_path_length

PathLengthCropOf(s) ==
    Crop(resample_contour_slices(s, ct).vol,
         CropBounds(resample_contour_slices(struct_ref, ct).minmax,
                    resample_contour_slices(struct_new, ct).minmax,
                    PathLengthMargin, ct))

\* the message that names the side a slice is missing from
ExpectedMessages(ii) ==
    IF /\ SliceSum(PathLengthCropOf(struct_ref), ii) = 0
       /\ SliceSum(PathLengthCropOf(struct_new), ii) # 0
    THEN {"contains no GT contour but does contain an automatic contour"}
    ELSE IF /\ SliceSum(PathLengthCropOf(struct_ref), ii) # 0
            /\ SliceSum(PathLengthCropOf(struct_new), ii) = 0
         THEN {"contains a GT contour but no automatic contour"}
         ELSE {}

(***************************************************************************)
(* C23: on every Y-slice the path-length functions print 'contains no GT   *)
(* contour but does contain an automatic contour' when the reference       *)
(* (contour1) slice is empty and the comparison slice is not, 'contains a  *)
(* GT contour but no automatic contour' when the reference slice is not    *)
(* empty and the comparison slice is, and nothing otherwise.               *)
(***************************************************************************)
C23_MessagesNameTheRightSide ==
    (/\ op \in {"calculate_path_length", "calculate_different_path_length_v2"}
     /\ result.kind = "path_length")
        => \A ii \in DOMAIN result.printed :
              result.printed[ii] = ExpectedMessages(ii)

\* a message is printed exactly for the slices that one contour alone is
\* missing from, and never two for one slice
C23_MessageIffOneSideMissing ==
    (/\ op \in {"calculate_path_length", "calculate_different_path_length_v2"}
     /\ result.kind = "path_length")
        => \A ii \in DOMAIN result.printed :
              /\ Cardinality(result.printed[ii]) <= 1
              /\ (result.printed[ii] = {}) = (ExpectedMessages(ii) = {})

(***************************************************************************)
(* C24: for the same grid, contours and single tolerance,                  *)
(* calculate_path_length counts on every Y-slice the same number of voxels *)
(* as calculate_different_path_length_v2; the two differ in the length     *)
(* factor only.                                                            *)
(***************************************************************************)
C24_SameCountBothVariants ==
    (/\ op = "calculate_path_length"
     /\ RefMask.vox # {}
     /\ NewMask.vox # {})
        => /\ result.kind = "path_length"
           /\ result.count =
                 calculate_different_path_length_v2(ct, struct_ref, struct_new,
                                                    tolerance).count
           /\ result.factor #
                 calculate_different_path_length_v2(ct, struct_ref, struct_new,
                                                    tolerance).factor

(***************************************************************************)
(* The polygon of a slice in grid coordinates, first axis X, third axis Z. *)
(***************************************************************************)
\* (x, z) lies inside or on the rectangle with the slice's vertices
InsideOrOn(slice_data, x, z) ==
    /\ SeqMin(slice_data.X) <= x /\ x <= SeqMax(slice_data.X)
    /\ SeqMin(slice_data.Z) <= z /\ z <= SeqMax(slice_data.Z)

(***************************************************************************)
(* C25: compose_struct_matrix rasterizes on the axes of the grid and of    *)
(* resample_contour_slices: bit i is set at [x, y, z] only if (x, z) lies  *)
(* inside or on the polygon of a slice of structure i at that y, whose     *)
(* vertices are ((X - PixelFirstXi) / PixelSpacingXi,                      *)
(* (Z - PixelFirstZi) / PixelSpacingZi).                                   *)
(***************************************************************************)
C25_SameAxesAsResample ==
    op = "compose_struct_matrix"
        => \A b \in result.bits :
              \E j \in DOMAIN rtstruct1.Struct[b[2] + 1].Slice :
                 /\ HasY(rtstruct1.Struct[b[2] + 1].Slice[j])
                 /\ YIdx(rtstruct1.Struct[b[2] + 1].Slice[j]) = b[1][2]
                 /\ InsideOrOn(rtstruct1.Struct[b[2] + 1].Slice[j],
                               b[1][1], b[1][3])

\* with the first and third subscript exchanged the bits do lie in the
\* polygon
C25_TransposedAxes ==
    op = "compose_struct_matrix"
        => \A b \in result.bits :
              \E j \in DOMAIN rtstruct1.Struct[b[2] + 1].Slice :
                 /\ HasY(rtstruct1.Struct[b[2] + 1].Slice[j])
                 /\ YIdx(rtstruct1.Struct[b[2] + 1].Slice[j]) = b[1][2]
                 /\ InsideOrOn(rtstruct1.Struct[b[2] + 1].Slice[j],
                               b[1][3], b[1][1])

(***************************************************************************)
(* C26: compose_struct_matrix rasterizes a structure among the first 64    *)
(* whatever its slice count: a structure with exactly one slice that has   *)
(* points, lies on a scan plane and has a fillable polygon gets its bit    *)
(* set in the voxels of that polygon.                                      *)
(***************************************************************************)
C26_SingleSliceRasterized ==
    (op = "compose_struct_matrix" /\ ~ legacy_promotion)
        => \A k \in {q \in WithSlices : q <= max_structs} :
              (/\ Len(rtstruct1.Struct[k].Slice) = 1
               /\ SliceBranch(ct, rtstruct1.Struct[k].Slice[1]) = "match"
               /\ SliceVoxels(ct, rtstruct1.Struct[k].Slice[1]) # {})
                  => SliceVoxels(ct, rtstruct1.Struct[k].Slice[1])
                         \subseteq PlaneOf(result.bits, k - 1)

\* of a structure with two slices or more, every matching slice that the
\* loop reaches is rasterized
C26_MultiSliceRasterized ==
    (op = "compose_struct_matrix" /\ ~ legacy_promotion)
        => \A k \in {q \in WithSlices : q <= max_structs} :
              \A j \in SlicesReached(ct, rtstruct1.Struct[k].Slice) :
                 (/\ Len(rtstruct1.Struct[k].Slice) > 1
                  /\ SliceBranch(ct, rtstruct1.Struct[k].Slice[j]) = "match")
                     => SliceVoxels(ct, rtstruct1.Struct[k].Slice[j])
                            \subseteq PlaneOf(result.bits, k - 1)

(***************************************************************************)
(* The contour points of the resampling call, as 0-based grid indices.     *)
(***************************************************************************)
NearestVoxels ==
    {<<r[1] - 1, r[2] - 1, r[3] - 1>> : r \in ContourRows(struct_ref)}

AllInsideGrid ==
    /\ NearestVoxels # {}
    /\ NearestVoxels \subseteq VoxelsOfShape(ShapeOf(ct))

(***************************************************************************)
(* C27: when the nearest grid index of every contour point lies inside the *)
(* grid on all three axes (0 <= index <= PixelNum - 1, the last voxel of   *)
(* an axis included), resample_contour_slices marks exactly those voxels,  *)
(* unmoved, and prints no outside-grid diagnostic.                         *)
(***************************************************************************)
C27_InsidePointsUnmoved ==
    (op = "resample_contour_slices" /\ AllInsideGrid)
        => /\ result.vol.vox = NearestVoxels
           /\ ~ result.warned

\* points that keep off the last voxel of every axis are marked unmoved
C27_BelowLastVoxelUnmoved ==
    (/\ op = "resample_contour_slices"
     /\ AllInsideGrid
     /\ \A v \in NearestVoxels :
           /\ v[1] < ct.PixelNumXi - 1
           /\ v[2] < ct.PixelNumYi - 1
           /\ v[3] < ct.PixelNumZi - 1)
        => /\ result.vol.vox = NearestVoxels
           /\ ~ result.warned

(***************************************************************************)
(* The bit-planes compose_struct_matrix fills for the structure a record   *)
(* is about, each at the index the name has in its own structure set.      *)
(***************************************************************************)
RecordPlane1(r) ==
    PlaneOf(compose_struct_matrix(ct, patients[r.pNumber].rtstruct1,
                                  legacy_promotion).bits,
            IndexOf(Vois(patients[r.pNumber].rtstruct1), r.VOIName))

RecordPlane2(r) ==
    PlaneOf(compose_struct_matrix(ct, patients[r.pNumber].rtstruct2,
                                  legacy_promotion).bits,
            IndexOf(Vois(patients[r.pNumber].rtstruct2), r.VOIName))

\* 2 |A & B| / (|A| + |B|), 1.0 for two empty sets
OverlapOfPlanes(A, B) ==
    IF Cardinality(A) + Cardinality(B) = 0
    THEN One
    ELSE TrueDivide(2 * Cardinality(A \cap B), Cardinality(A) + Cardinality(B))

(***************************************************************************)
(* C28: the Dice of every record of the drivers is the overlap of the      *)
(* bit-plane compose_struct_matrix filled for the structure at the name's  *)
(* index in the first structure set with the bit-plane it filled for the   *)
(* structure at the name's index in the second structure set, also when    *)
(* the two indices differ.                                                 *)
(***************************************************************************)
C28_DiceFromOwnBitPlanes ==
    driver # "none"
        => \A k \in DOMAIN all_results :
              all_results[k].Dice =
                  OverlapOfPlanes(RecordPlane1(all_results[k]),
                                  RecordPlane2(all_results[k]))

\* a record of a name with different indices in the two structure sets,
\* whose bit-plane in the second set differs from the plane at the index the
\* name has in the first set
C28_Witness ==
    /\ driver # "none"
    /\ \E k \in DOMAIN all_results :
          /\ IndexOf(Vois(patients[all_results[k].pNumber].rtstruct1),
                     all_results[k].VOIName)
                # IndexOf(Vois(patients[all_results[k].pNumber].rtstruct2),
                          all_results[k].VOIName)
          /\ RecordPlane1(all_results[k]) # {}
          /\ RecordPlane2(all_results[k]) # {}
          /\ RecordPlane2(all_results[k]) #
                PlaneOf(compose_struct_matrix(ct,
                            patients[all_results[k].pNumber].rtstruct2,
                            legacy_promotion).bits,
                        IndexOf(Vois(patients[all_results[k].pNumber].rtstruct1),
                                all_results[k].VOIName))

(***************************************************************************)
(* C29: calculate_dice and calculate_dice_logical return the same value    *)
(* for the same volumes and structure numbers whenever the two extracted   *)
(* masks are not both empty (|A| + |B| > 0).                               *)
(***************************************************************************)
C29_DiceVariantsAgree ==
    (/\ op \in {"calculate_dice", "calculate_dice_logical"}
     /\ Cardinality(MaskA) + Cardinality(MaskB) > 0)
        => /\ FloatEq(result,
                      calculate_dice(voi1, voi2, struct_num_1, struct_num_2))
           /\ FloatEq(result,
                      calculate_dice_logical(voi1, voi2, struct_num_1,
                                             struct_num_2))

\* calculate_dice on a partial overlap of masks read off different bits
C29_Witness ==
    /\ op = "calculate_dice"
    /\ struct_num_1 # struct_num_2
    /\ Cardinality(MaskA \cap MaskB) = 1
    /\ Cardinality(MaskA) + Cardinality(MaskB) = 3
    /\ FloatEq(calculate_dice_logical(voi1, voi2, struct_num_1, struct_num_2),
               Float(2, 3))

(***************************************************************************)
(* C30: the surface DSC is symmetric: calculate_surface_dsc(ct, S1, S2, i, *)
(* j, tol) returns the value that calculate_surface_dsc(ct, S2, S1, j, i,  *)
(* tol) returns.                                                           *)
(***************************************************************************)
C30_SurfaceDscSymmetric ==
    (/\ op = "calculate_surface_dsc"
     /\ RefMask.vox # {}
     /\ NewMask.vox # {})
        => /\ result.kind \in {"float", "array"}
           /\ result = calculate_surface_dsc(ct, struct_new, struct_ref, tolerance)

====
